---- MODULE Spec2Model ----
(***************************************************************************)
(* A model of the sdna workflow engine: Ariadne threads (ariadne.py), the  *)
(* Poimandres generation step (poimandres.py, runner.py), SDNAC units and  *)
(* SDNAFlow flows (sdna.py) and the DUOAgent refinement loop (duo.py).     *)
(*                                                                         *)
(* Python indices are kept 0-based as in the source; element i of a Thread *)
(* is elements[i + 1] of the TLA+ sequence.  A context (a Python dict) is  *)
(* a function from the keys present to string values.                      *)
(***************************************************************************)
EXTENDS Integers, Sequences, FiniteSets, TLC

(***************************************************************************)
(* Bounds of the model.                                                    *)
(***************************************************************************)
MaxLen == 3
MaxUnitLen == 2
MaxResumes == 2
MaxFlowResumes == 1
MaxUnits == 3
MaxIterations == 2
MaxV2Iterations == 2

(***************************************************************************)
(* Python values.                                                          *)
(***************************************************************************)
None == "None"
NoIndex == 0 - 1
NoChoices == <<>>
NoPath == <<>>
False == "False"

EmptyCtx == [k \in {} |-> None]

\* dict.get(key, default)
CtxGet(ctx, key, default) == IF key \in DOMAIN ctx THEN ctx[key] ELSE default

\* ctx[key] = value
CtxSet(ctx, key, value) ==
    [k \in (DOMAIN ctx) \cup {key} |-> IF k = key THEN value ELSE ctx[k]]

\* ctx.update(other)
CtxUpdate(ctx, other) ==
    [k \in (DOMAIN ctx) \cup (DOMAIN other) |->
        IF k \in DOMAIN other THEN other[k] ELSE ctx[k]]

\* dict(context) if context else {}
DictCopy(context) == IF DOMAIN context = {} THEN EmptyCtx ELSE context

\* A variant of SharesCaller for "ctx = context or {}", which binds ctx to the
\* caller's own dict whenever that dict is not empty.
SharesCaller_NoCopy(context) == DOMAIN context # {}

\* Whether the ctx that "dict(context) if context else {}" makes is the caller's
\* own dict object: dict(...) and {} both make a new object.
SharesCaller(context) == FALSE

\* The caller's dict once the callee has written its ctx: item assignment,
\* update and the elements' execute(ctx) all write the object ctx is bound to.
CallerSees(context, ctx) == IF SharesCaller(context) THEN ctx ELSE context

(***************************************************************************)
(* Ariadne elements (ariadne.py, config.py).                               *)
(***************************************************************************)
\* An argument or query written "$name" is a reference into the context.
Ref(name) == [ref |-> TRUE, v |-> name]
Lit(value) == [ref |-> FALSE, v |-> value]

human(prompt, as_key, choices) ==
    [kind |-> "human", prompt |-> prompt, input_key |-> as_key, choices |-> choices]

inject_literal(value, as_key) ==
    [kind |-> "inject", source |-> "literal", inject_as |-> as_key, value |-> value]

inject_file(path, as_key) ==
    [kind |-> "inject", source |-> "file", inject_as |-> as_key, path |-> path]

inject_func(module, func, as_key, args) ==
    [kind |-> "inject", source |-> "function", inject_as |-> as_key,
     module |-> module, func |-> func, args |-> args]

inject_env(env_var, as_key, default) ==
    [kind |-> "inject", source |-> "env", inject_as |-> as_key,
     env_var |-> env_var, default |-> default]

weave(source, as_key) ==
    [kind |-> "weave", inject_as |-> as_key, source_session |-> source]

inject_brain(directory, query_key, as_key) ==
    [kind |-> "brain", brain_directory |-> directory, query_key |-> query_key,
     inject_as |-> as_key]

\* DovetailModel with single-part source keys; every input is required.
dovetail(name, expected_outputs, input_map) ==
    [kind |-> "dovetail", name |-> name, expected_outputs |-> expected_outputs,
     input_map |-> input_map]

(***************************************************************************)
(* The outside world an element can read: the files that exist, how the    *)
(* imported function behaves, the environment variables that are set, and  *)
(* whether the brain directory exists.                                     *)
(***************************************************************************)
FileContent(path) == "content of " \o path
EnvValue(var) == "value of " \o var
FuncReturn(args) == "data for " \o args["id"]

\* class Brain (brain.py) defines query, cognize and instruct but no think.
BrainHasThink == FALSE
BrainThink(query) == "instructions for " \o query

\* A variant of Raise in which the element has written to the dict before raising.
Raise_AfterWrite(msg, ctx) ==
    [raised |-> TRUE, error |-> msg, ctx |-> CtxSet(ctx, "partial", msg)]

\* The element raises msg; ctx is the dict as the element leaves it (the
\* elements write to the dict they are given, in place).
Raise(msg, ctx) == [raised |-> TRUE, error |-> msg, ctx |-> ctx]
Return(ctx) == [raised |-> FALSE, error |-> None, ctx |-> ctx]

\* InjectConfig.execute
InjectExecute(elem, context, world) ==
    CASE elem.source = "file" ->
            IF elem.path \in world.files
            THEN Return(CtxSet(context, elem.inject_as, FileContent(elem.path)))
            ELSE Raise("No such file or directory: " \o elem.path, context)
      [] elem.source = "function" ->
            IF world.fn = "no_module"
            THEN Raise("No module named " \o elem.module, context)
            ELSE LET resolved ==
                        [k \in DOMAIN elem.args |->
                            IF elem.args[k].ref
                            THEN CtxGet(context, elem.args[k].v, "$" \o elem.args[k].v)
                            ELSE elem.args[k].v]
                 IN  IF world.fn = "raises"
                     THEN Raise("function failed", context)
                     ELSE Return(CtxSet(context, elem.inject_as, FuncReturn(resolved)))
      [] elem.source = "literal" ->
            Return(CtxSet(context, elem.inject_as, elem.value))
      [] elem.source = "env" ->
            Return(CtxSet(context, elem.inject_as,
                          IF elem.env_var \in world.environ
                          THEN EnvValue(elem.env_var) ELSE elem.default))
      [] OTHER -> Return(context)

\* WeaveConfig.execute: stores a pending marker naming the source session.
WeaveExecute(elem, context) ==
    Return(CtxSet(context, elem.inject_as, "pending weave of " \o elem.source_session))

\* BrainInjectConfig.execute
BrainInjectExecute(elem, context, world) ==
    LET query == IF elem.query_key.ref
                 THEN CtxGet(context, elem.query_key.v, "")
                 ELSE elem.query_key.v
    IN  IF ~world.brain_dir
        THEN Raise("Brain directory does not exist: " \o elem.brain_directory, context)
        ELSE IF ~BrainHasThink
        THEN Raise("'Brain' object has no attribute 'think'", context)
        ELSE Return(CtxSet(CtxSet(context, elem.inject_as, BrainThink(query)),
                           elem.inject_as \o "_neurons", "neurons for " \o query))

\* DovetailModel.validate_outputs: the expected keys that are absent.
validate_outputs(elem, result) ==
    {key \in elem.expected_outputs : CtxGet(result, key, None) = None}

\* DovetailModel.prepare_next_inputs, then ctx.update(next_inputs)
DovetailExecute(elem, context) ==
    IF validate_outputs(elem, context) # {}
    THEN Raise("Dovetail '" \o elem.name \o "' missing outputs", context)
    ELSE IF \E n \in DOMAIN elem.input_map :
                CtxGet(context, elem.input_map[n], None) = None
    THEN Raise("Required input not found", context)
    ELSE Return(CtxUpdate(context,
                    [n \in DOMAIN elem.input_map |-> context[elem.input_map[n]]]))

\* The dispatch of AriadneChain.execute on a non-gate element.
ElemExecute(elem, ctx, world) ==
    CASE elem.kind = "inject"   -> InjectExecute(elem, ctx, world)
      [] elem.kind = "weave"    -> WeaveExecute(elem, ctx)
      [] elem.kind = "brain"    -> BrainInjectExecute(elem, ctx, world)
      [] elem.kind = "dovetail" -> DovetailExecute(elem, ctx)
      [] OTHER -> Return(ctx)

(***************************************************************************)
(* AriadneResult and AriadneChain.execute.                                 *)
(***************************************************************************)
AriadneResult(status, context, error, prompt, input_key, choices, resume_at) ==
    [status |-> status, context |-> context, error |-> error,
     pending_prompt |-> prompt, pending_input_key |-> input_key,
     pending_choices |-> choices, resume_at |-> resume_at]

\* Variants of ResumeIndex with an off-by-one slip: the gate's own index, and one
\* past the element that follows the gate.
ResumeIndex_Same(i) == i
ResumeIndex_Skip(i) == i + 2

\* The index execute reports for resuming after the gate at index i.
ResumeIndex(i) == i + 1

\* A variant of AwaitingResult in which the gate reserves its result key.
AwaitingResult_Writes(elem, i, ctx) ==
    [status |-> "awaiting_input", context |-> CtxSet(ctx, elem.input_key, ""),
     error |-> None, pending_prompt |-> elem.prompt,
     pending_input_key |-> elem.input_key, pending_choices |-> elem.choices,
     resume_at |-> i + 1]

\* What a human gate at index i returns.
AwaitingResult(elem, i, ctx) ==
    AriadneResult("awaiting_input", ctx, None, elem.prompt, elem.input_key,
                  elem.choices, ResumeIndex(i))

\* One pass through the body of the for loop, at index i: either execute
\* returns (ret is TRUE, with the result) or the loop goes on with ctx.
AriadneIter(elements, i, ctx, world) ==
    LET elem == elements[i + 1]
    IN  IF elem.kind = "human"
        THEN [ret |-> TRUE, result |-> AwaitingResult(elem, i, ctx), ctx |-> ctx]
        ELSE LET r == ElemExecute(elem, ctx, world)
             IN  IF r.raised
                 THEN [ret |-> TRUE,
                       result |-> AriadneResult("error", r.ctx, r.error, None, None,
                                                NoChoices, NoIndex),
                       ctx |-> r.ctx]
                 ELSE [ret |-> FALSE, result |-> None, ctx |-> r.ctx]

SuccessResult(ctx) ==
    AriadneResult("success", ctx, None, None, None, NoChoices, NoIndex)

RECURSIVE AriadneLoop(_, _, _, _)
AriadneLoop(elements, i, ctx, world) ==
    IF i >= Len(elements)
    THEN SuccessResult(ctx)
    ELSE LET it == AriadneIter(elements, i, ctx, world)
         IN  IF it.ret THEN it.result
             ELSE AriadneLoop(elements, i + 1, it.ctx, world)

\* AriadneChain.execute(context, start_at) as one call.
AriadneExecute(elements, context, start_at, world) ==
    AriadneLoop(elements, start_at, DictCopy(context), world)

(***************************************************************************)
(* Tags in agent output (tags.py).  A text is a string; Tokens gives, for  *)
(* the texts the model's agents produce, the <t>...</t> occurrences the    *)
(* pattern of extract_tags finds in it, in order of appearance, with the   *)
(* tag name and the content as written.  Lower and Strip are str.lower and *)
(* str.strip on the strings that occur in those texts.                     *)
(***************************************************************************)
ChallengeText == "<challenge>prove it</challenge>"
DeliverableText == "Here it is <deliverable> the code </deliverable> done"
GatePassText == "<gate-passed>True</gate-passed>"
GateFailText == "<gate-passed>false</gate-passed><gate-feedback>tighten</gate-feedback>"
OvpApproveText == "<OVP-APPROVED>TRUE</OVP-APPROVED>"
OvpRejectText == "<ovp-approved>no</ovp-approved><ovp-feedback>more tests</ovp-feedback>"
BlockedText == "<genuinely-blocked>goal: g obstacle: o</genuinely-blocked>"
EmbeddedBlockedText ==
    "I tried twice. <genuinely-blocked> goal: g reason: other </genuinely-blocked> Sorry."
UnclosedBlockedText == "I am <genuinely-blocked> and cannot go on"
TwoDeliverablesText ==
    "<deliverable>first draft</deliverable> or <deliverable>second draft</deliverable>"
MixedCaseText == "<Gate-Passed>true</Gate-Passed> <gate-passed>false</gate-passed>"
MultiLineText == "<deliverable>line one\nline two</deliverable>"
PlainText == "nothing to report"

Tag(name, content) == [tag |-> name, content |-> content]

Tokens(text) ==
    CASE text = ChallengeText -> <<Tag("challenge", "prove it")>>
      [] text = DeliverableText -> <<Tag("deliverable", " the code ")>>
      [] text = GatePassText -> <<Tag("gate-passed", "True")>>
      [] text = GateFailText ->
            <<Tag("gate-passed", "false"), Tag("gate-feedback", "tighten")>>
      [] text = OvpApproveText -> <<Tag("OVP-APPROVED", "TRUE")>>
      [] text = OvpRejectText ->
            <<Tag("ovp-approved", "no"), Tag("ovp-feedback", "more tests")>>
      [] text = BlockedText -> <<Tag("genuinely-blocked", "goal: g obstacle: o")>>
      [] text = EmbeddedBlockedText ->
            <<Tag("genuinely-blocked", " goal: g reason: other ")>>
      [] text = TwoDeliverablesText ->
            <<Tag("deliverable", "first draft"), Tag("deliverable", "second draft")>>
      [] text = MixedCaseText ->
            <<Tag("Gate-Passed", "true"), Tag("gate-passed", "false")>>
      [] text = MultiLineText -> <<Tag("deliverable", "line one\nline two")>>
      [] OTHER -> <<>>

Lower(str) ==
    CASE str \in {"True", "TRUE"} -> "true"
      [] str = "OVP-APPROVED" -> "ovp-approved"
      [] str = "Gate-Passed" -> "gate-passed"
      [] str = "GATE-PASSED" -> "gate-passed"
      [] OTHER -> str

Strip(str) ==
    CASE str = " the code " -> "the code"
      [] str = " goal: g reason: other " -> "goal: g reason: other"
      [] OTHER -> str

\* A variant of the search that keeps the last occurrence of the tag.
FirstMatch_Last(tokens, tag) ==
    LET hits == {k \in 1..Len(tokens) : Lower(tokens[k].tag) = Lower(tag)}
    IN  IF hits = {} THEN 0 ELSE CHOOSE k \in hits : \A h \in hits : k >= h

\* re.search(pattern, output, re.DOTALL | re.IGNORECASE): the first occurrence
\* of the tag, its name compared without regard to case, or 0 when there is none.
FirstMatch(tokens, tag) ==
    LET hits == {k \in 1..Len(tokens) : Lower(tokens[k].tag) = Lower(tag)}
    IN  IF hits = {} THEN 0 ELSE CHOOSE k \in hits : \A h \in hits : k <= h

\* extract_tags(output, tag_names)
extract_tags(output, tag_names) ==
    [tag \in tag_names |->
        LET tokens == Tokens(output)
            match == FirstMatch(tokens, tag)
        IN  IF match # 0 THEN Strip(tokens[match].content) ELSE None]

\* A variant of tag_equals that compares the tag's content as written.
tag_equals_CaseSensitive(extracted, tag, value) ==
    LET actual == CtxGet(extracted, tag, None)
    IN  actual # None /\ actual = value

\* tag_equals(extracted, tag, value)
tag_equals(extracted, tag, value) ==
    LET actual == CtxGet(extracted, tag, None)
    IN  actual # None /\ Lower(actual) = Lower(value)

\* Python's "a or b" on a tag's content
Or(a, b) == IF a \in {None, ""} THEN b ELSE a

(***************************************************************************)
(* The Generation Step: HermesConfig.resolve_goal (config.py), agent_step  *)
(* (runner.py), parse_blocked_from_text (tools.py) and poimandres.execute. *)
(*                                                                         *)
(* A config carries the placeholders of its goal template (goal_vars), its *)
(* pre-declared variable_inputs, whether brain integration is configured   *)
(* (brain_query and brain_project_root), and fork_session / resume.        *)
(* A model call (llm) is what the collaborator does on one invocation:     *)
(* whether the SDK is importable, whether the brain query works, the       *)
(* streamed message events, and whether the stream raises.                 *)
(***************************************************************************)
HermesConfig(name, goal_vars, variable_inputs, brain, fork_session) ==
    [name |-> name, goal_vars |-> goal_vars, variable_inputs |-> variable_inputs,
     brain |-> brain, inject_context_as |-> "project_context",
     fork_session |-> fork_session, resume |-> None]

\* HermesConfig.resolve_goal: the template is formatted only when there are
\* bindings, and a placeholder missing from the merged bindings raises.
resolve_goal(config, inputs) ==
    IF DOMAIN inputs = {} /\ DOMAIN config.variable_inputs = {}
    THEN [raised |-> FALSE, error |-> None]
    ELSE LET merged == CtxUpdate(config.variable_inputs, inputs)
         IN  IF config.goal_vars \subseteq DOMAIN merged
             THEN [raised |-> FALSE, error |-> None]
             ELSE [raised |-> TRUE,
                   error |-> "Missing required variable in goal template"]

\* HermesConfig.resolve_session_id, reached through to_sdk_options.
resolve_session_id(config) ==
    IF config.fork_session /\ config.resume = None
    THEN [raised |-> TRUE, error |-> "fork_session=True requires resume"]
    ELSE [raised |-> FALSE, error |-> None]

\* The text blocks of the stream, each overwriting final_text.
RECURSIVE FinalText(_, _)
FinalText(events, final_text) ==
    IF events = <<>> THEN final_text
    ELSE FinalText(Tail(events),
                   IF Head(events).has_text THEN Head(events).text ELSE final_text)

\* A variant of parse_blocked_from_text that wants the block to be the whole text.
parse_blocked_from_text_WholeText(text) == text = BlockedText

\* parse_blocked_from_text: re.search for the <genuinely-blocked> block anywhere
\* in the text; whether a BlockedReport is returned rather than None.
parse_blocked_from_text(text) == FirstMatch(Tokens(text), "genuinely-blocked") # 0

\* BlockedReport(raw_text=content): group 1 of the match, the pattern's \s* on
\* both sides having taken the surrounding white space.
BlockedReport(text) ==
    LET tokens == Tokens(text)
    IN  [raw_text |-> Strip(tokens[FirstMatch(tokens, "genuinely-blocked")].content)]

StepResult(status, output, error) ==
    [status |-> status, output |-> output, error |-> error]

\* A variant of QueryAttempts that calls the model again after a failed call.
QueryAttempts_RetryOnFailure(llm) == IF llm.fails THEN 2 ELSE 1

\* async for message in query(prompt=prompt, options=options): one call, in no loop
QueryAttempts(llm) == 1

\* agent_step returns result, having called the model `queries` times and saved
\* the reports in `saved` (under the config's name).
StepReturns(result, queries, saved) ==
    [raised |-> FALSE, result |-> result, error |-> None, queries |-> queries,
     saved |-> saved]

\* An exception escapes agent_step before the model is called.
StepRaises(error) ==
    [raised |-> TRUE, result |-> StepResult(None, EmptyCtx, None), error |-> error,
     queries |-> 0, saved |-> {}]

\* The calls of get_project_context agent_step makes: one when the SDK is there
\* and the config names a brain query and a project root, before the goal is
\* resolved.
Retrievals(config, llm) == IF llm.sdk /\ config.brain THEN 1 ELSE 0

\* agent_step: the result, or the exception that escapes it.
agent_step(config, variable_inputs, llm) ==
    IF ~llm.sdk
    THEN StepReturns(StepResult("error", EmptyCtx, "claude-agent-sdk not installed"),
                     0, {})
    ELSE LET merged_inputs ==
                 IF config.brain
                 THEN CtxSet(variable_inputs, config.inject_context_as,
                             IF llm.brain_ok THEN "project context"
                             ELSE "[Brain query failed]")
                 ELSE variable_inputs
             goal == resolve_goal(config, merged_inputs)
             sid == resolve_session_id(config)
             final_text == FinalText(llm.events, "")
         IN  IF goal.raised THEN StepRaises(goal.error)
             ELSE IF sid.raised THEN StepRaises(sid.error)
             ELSE IF llm.fails
             THEN StepReturns(StepResult("error", EmptyCtx, "model call failed"),
                              QueryAttempts(llm), {})
             ELSE IF final_text # "" /\ parse_blocked_from_text(final_text)
             THEN StepReturns(StepResult("blocked", EmptyCtx, None), QueryAttempts(llm),
                              {[name |-> config.name, report |-> BlockedReport(final_text)]})
             ELSE StepReturns(StepResult("success", [k \in {"text"} |-> final_text],
                                         None),
                              QueryAttempts(llm), {})

PoimandresResult(success, output, blocked, error) ==
    [success |-> success, output |-> output, blocked |-> blocked, error |-> error]

\* A variant of PoimandresCatch that lets the exception go on to the caller.
PoimandresCatch_Reraise(error) == [raised |-> TRUE, error |-> error]

\* except Exception as e: return PoimandresResult(success=False, error=str(e))
PoimandresCatch(error) == PoimandresResult(FALSE, EmptyCtx, FALSE, error)

\* Whether a call ended in an exception rather than in a returned result.
Escapes(r) == "raised" \in DOMAIN r /\ r.raised

\* poimandres.execute
PoimandresExecute(config, context, llm) ==
    LET ctx == DictCopy(context)
        step == agent_step(config, ctx, llm)
    IN  IF step.raised
        THEN PoimandresCatch(step.error)
        ELSE IF step.result.status = "blocked"
        THEN PoimandresResult(FALSE, EmptyCtx, TRUE, None)
        ELSE IF step.result.status = "error"
        THEN PoimandresResult(FALSE, EmptyCtx, FALSE, step.result.error)
        ELSE PoimandresResult(TRUE, step.result.output, FALSE, None)

(***************************************************************************)
(* SDNAResult and SDNAC.execute (sdna.py).                                 *)
(***************************************************************************)
\* The dataclass SDNAResult: it has no field for choices or a resume index.
SDNAResult(status, context, error, pending_prompt, pending_input_key) ==
    [status |-> status, context |-> context, error |-> error, resume_path |-> NoPath,
     pending_prompt |-> pending_prompt, pending_input_key |-> pending_input_key]

sdnac(name, ariadne, config) == [name |-> name, ariadne |-> ariadne, config |-> config]

\* start_at of AriadneChain.execute defaults to 0, and SDNAC.execute passes none.
DefaultStartAt == 0

\* The call self.ariadne.execute(ctx) of SDNAC.execute
SDNACAriadne(unit, ctx, w) == AriadneExecute(unit.ariadne, ctx, DefaultStartAt, w)

\* A variant of SDNACReturnsEarly that lets a Thread error fall through.
SDNACReturnsEarly_NoError(ariadne_result) == ariadne_result.status = "awaiting_input"

\* Whether SDNAC.execute returns right after the Thread, without generating.
SDNACReturnsEarly(ariadne_result) ==
    ariadne_result.status = "awaiting_input" \/ ariadne_result.status = "error"

\* The result SDNAC.execute returns when it returns right after the Thread.
SDNACEarlyResult(ariadne_result) ==
    IF ariadne_result.status = "awaiting_input"
    THEN SDNAResult("awaiting_input", ariadne_result.context, None,
                    ariadne_result.pending_prompt, ariadne_result.pending_input_key)
    ELSE SDNAResult("error", ariadne_result.context, ariadne_result.error, None, None)

\* A variant of SDNACFinalResult in which the Thread's entries win over the output's.
SDNACFinalResult_ContextWins(ctx, poimandres_result) ==
    IF poimandres_result.blocked
    THEN SDNAResult("blocked", ctx, None, None, None)
    ELSE IF ~poimandres_result.success
    THEN SDNAResult("error", ctx, poimandres_result.error, None, None)
    ELSE SDNAResult("success", CtxUpdate(poimandres_result.output, ctx), None, None,
                    None)

\* The result SDNAC.execute returns after Poimandres has generated.
SDNACFinalResult(ctx, poimandres_result) ==
    IF poimandres_result.blocked
    THEN SDNAResult("blocked", ctx, None, None, None)
    ELSE IF ~poimandres_result.success
    THEN SDNAResult("error", ctx, poimandres_result.error, None, None)
    ELSE SDNAResult("success", CtxUpdate(ctx, poimandres_result.output), None, None,
                    None)

\* SDNAC.execute(context) as one call.
SDNACExecute(unit, context, w, llm) ==
    LET ctx == DictCopy(context)
        ariadne_result == SDNACAriadne(unit, ctx, w)
    IN  IF SDNACReturnsEarly(ariadne_result)
        THEN SDNACEarlyResult(ariadne_result)
        ELSE SDNACFinalResult(ariadne_result.context,
                              PoimandresExecute(unit.config, ariadne_result.context, llm))

(***************************************************************************)
(* SDNAFlow.execute (sdna.py).                                             *)
(***************************************************************************)
\* A variant of FlowHalts that stops the Flow on errors only.
FlowHalts_OnlyError(result) == result.status = "error"

\* if result.status != SDNAStatus.SUCCESS
FlowHalts(result) == result.status # "success"

\* result.resume_path = [i]; return result
FlowHaltResult(result, i) == [result EXCEPT !.resume_path = <<i>>]

\* A variant of FlowSuccessResult that names the last Unit as the place to resume.
FlowSuccessResult_WithPath(ctx) ==
    [SDNAResult("success", ctx, None, None, None) EXCEPT !.resume_path = <<0>>]

\* return SDNAResult(status=SDNAStatus.SUCCESS, context=ctx)
FlowSuccessResult(ctx) == SDNAResult("success", ctx, None, None, None)

(***************************************************************************)
(* DUOResult and the checks of DUOAgent.execute (duo.py).                  *)
(***************************************************************************)
DUOResult(status, context, iterations, error, ovp_feedback) ==
    [status |-> status, context |-> context, iterations |-> iterations,
     error |-> error, ovp_feedback |-> ovp_feedback]

duo_agent(target, ovp, max_iterations) ==
    [target |-> target, ovp |-> ovp, max_iterations |-> max_iterations,
     approval_key |-> "ovp_approved", feedback_key |-> "ovp_feedback"]

\* Python truth of a context value.
Truthy(value) == value \notin {"", False, None}

\* A variant of SetIteration that starts the iteration from an empty context.
SetIteration_Fresh(ctx, n) == CtxSet(EmptyCtx, "duo_iteration", ToString(n))

\* ctx["duo_iteration"] = iteration + 1
SetIteration(ctx, n) == CtxSet(ctx, "duo_iteration", ToString(n))

\* A variant of PreserveTargetOutput that leaves the context as it is.
PreserveTargetOutput_Skip(ctx) == ctx

\* ctx["target_output"] = ctx.get("text", "")
PreserveTargetOutput(ctx) == CtxSet(ctx, "target_output", CtxGet(ctx, "text", ""))

\* A variant of DuoTargetReturns that lets a blocked target reach the observer.
DuoTargetReturns_NotBlocked(target_result) ==
    target_result.status \in {"awaiting_input", "error"}

\* The if / elif chain after the target: which statuses end the loop.
DuoTargetReturns(target_result) ==
    target_result.status \in {"awaiting_input", "blocked", "error"}

DuoTargetResult(target_result, ctx, iteration) ==
    DUOResult(target_result.status, ctx, iteration + 1,
              IF target_result.status = "error" THEN target_result.error ELSE None,
              None)

\* The if / elif chain after the observer: which statuses end the loop.
DuoOvpReturns(ovp_result) == ovp_result.status \in {"error", "blocked"}

DuoOvpResult(ovp_result, ctx, iteration) ==
    DUOResult(ovp_result.status, ctx, iteration + 1,
              IF ovp_result.status = "error" THEN ovp_result.error ELSE None,
              None)

\* A variant of DuoApprovedResult that reports the loop index, not the count.
DuoApprovedResult_Index(agent, ctx, iteration) ==
    DUOResult("success", ctx, iteration, None, CtxGet(ctx, agent.feedback_key, None))

\* if approved: return DUOResult(SUCCESS, ctx, iteration + 1, ovp_feedback=feedback)
DuoApprovedResult(agent, ctx, iteration) ==
    DUOResult("success", ctx, iteration + 1, None, CtxGet(ctx, agent.feedback_key, None))

\* A variant of DuoExhaustedResult that reports the last loop index.
DuoExhaustedResult_LastIndex(agent, ctx) ==
    DUOResult("max_iterations", ctx, agent.max_iterations - 1, None,
              CtxGet(ctx, agent.feedback_key, None))

\* The return after the loop: MAX_ITERATIONS with iterations = max_iterations.
DuoExhaustedResult(agent, ctx) ==
    DUOResult("max_iterations", ctx, agent.max_iterations, None,
              CtxGet(ctx, agent.feedback_key, None))

\* A variant of DuoInRange with an inclusive upper end.
DuoInRange_Inclusive(agent, iteration) == iteration <= agent.max_iterations

\* for iteration in range(self.max_iterations)
DuoInRange(agent, iteration) == iteration < agent.max_iterations

(***************************************************************************)
(* DUOv2Result and DuoAgentV2.execute (duo_v2.py).                         *)
(***************************************************************************)
DUOv2Result(status, context, iterations, error, final_deliverable) ==
    [status |-> status, context |-> context, iterations |-> iterations,
     error |-> error, final_deliverable |-> final_deliverable]

duo_agent_v2(ariadne, poimandres, ariadne_gate, ovp, max_iterations) ==
    [ariadne |-> ariadne, poimandres |-> poimandres, ariadne_gate |-> ariadne_gate,
     ovp |-> ovp, max_iterations |-> max_iterations]

\* output = result.context.get("text", "")
V2Output(result) == CtxGet(result.context, "text", "")

\* if result.status == SDNAStatus.ERROR: the only status that ends the loop
V2StageReturns(result) == result.status = "error"

\* return DUOv2Result(status=ERROR, error=result.error, iterations=iteration + 1)
V2ErrorResult(result, iteration) ==
    DUOv2Result("error", EmptyCtx, iteration + 1, result.error, None)

\* ctx["challenge"] = tags.get("challenge") or output
V2SetChallenge(ctx, output) ==
    CtxSet(ctx, "challenge", Or(extract_tags(output, {"challenge"})["challenge"], output))

\* ctx["deliverable"] = tags.get("deliverable") or output
V2SetDeliverable(ctx, output) ==
    CtxSet(ctx, "deliverable",
           Or(extract_tags(output, {"deliverable"})["deliverable"], output))

\* tag_equals(tags, "gate-passed", "true")
V2GatePassed(output) ==
    tag_equals(extract_tags(output, {"gate-passed", "gate-feedback"}), "gate-passed", "true")

\* ctx["attempt_feedback"] = tags.get("gate-feedback") or "Gate rejected, try again"
V2GateFeedback(ctx, output) ==
    CtxSet(ctx, "attempt_feedback",
           Or(extract_tags(output, {"gate-passed", "gate-feedback"})["gate-feedback"],
              "Gate rejected, try again"))

\* A variant of V2Approved that takes any ovp-approved tag as approval.
V2Approved_AnyTag(output) ==
    extract_tags(output, {"ovp-approved", "ovp-feedback"})["ovp-approved"] # None

\* tag_equals(tags, "ovp-approved", "true")
V2Approved(output) ==
    tag_equals(extract_tags(output, {"ovp-approved", "ovp-feedback"}), "ovp-approved", "true")

\* ctx["attempt_feedback"] = tags.get("ovp-feedback") or "OVP rejected, try again"
V2OvpFeedback(ctx, output) ==
    CtxSet(ctx, "attempt_feedback",
           Or(extract_tags(output, {"ovp-approved", "ovp-feedback"})["ovp-feedback"],
              "OVP rejected, try again"))

\* return DUOv2Result(SUCCESS, ctx, iteration + 1, final_deliverable=ctx.get("deliverable"))
V2SuccessResult(ctx, iteration) ==
    DUOv2Result("success", ctx, iteration + 1, None, CtxGet(ctx, "deliverable", None))

\* A variant of V2ExhaustedResult that reports the last loop index.
V2ExhaustedResult_LastIndex(agent, ctx) ==
    DUOv2Result("max_iterations", ctx, agent.max_iterations - 1, None, None)

\* The return after the loop.
V2ExhaustedResult(agent, ctx) ==
    DUOv2Result("max_iterations", ctx, agent.max_iterations, None, None)

(***************************************************************************)
(* Graph compilation: SDNAState (state.py), the nodes the elements and the *)
(* config turn into, and the graphs of AriadneChain.to_graph,              *)
(* SDNAC.to_graph and DUOAgent.to_graph.  A node returns an update that    *)
(* the graph merges into the state, key by key; an exception in a node     *)
(* ends the invocation of the graph with that exception.  The fields of    *)
(* SDNAState that no node or edge of these graphs reads (results, output,  *)
(* current_unit, total_units, max_iterations) are left out.                *)
(***************************************************************************)
\* initial_state(context)
initial_state(context) ==
    [context |-> context, status |-> "pending", error |-> None,
     awaiting_input |-> FALSE, pending_prompt |-> None, pending_input_key |-> None,
     pending_choices |-> NoChoices, resume_at |-> NoIndex, iteration |-> 0]

\* The state after a node's update has been merged into it.
Merge(state, update) ==
    [k \in DOMAIN state |-> IF k \in DOMAIN update THEN update[k] ELSE state[k]]

NodeReturns(state) == [raised |-> FALSE, error |-> None, state |-> state]
NodeRaises(error, state) == [raised |-> TRUE, error |-> error, state |-> state]

\* HumanInput.to_langgraph_node: the update of the gate at index i
HumanNode(elem, i) ==
    [status |-> "awaiting_input", awaiting_input |-> TRUE,
     pending_prompt |-> elem.prompt, pending_input_key |-> elem.input_key,
     pending_choices |-> elem.choices]

\* The node of any other element (to_langgraph_node of InjectConfig,
\* WeaveConfig, BrainInjectConfig, and dovetail_node): the element runs on a
\* copy of the state's context, outside any try.
ElementNode(elem, state, world) ==
    LET r == ElemExecute(elem, state.context, world)
    IN  IF r.raised THEN NodeRaises(r.error, state)
        ELSE NodeReturns(Merge(state, [context |-> r.ctx]))

\* The node at index i of the Thread's graph, applied to state.
ThreadNode(elements, i, state, world) ==
    LET elem == elements[i + 1]
    IN  IF elem.kind = "human"
        THEN NodeReturns(Merge(state, HumanNode(elem, i)))
        ELSE ElementNode(elem, state, world)

\* check_human / check_human_final
check_human(state) == IF state.awaiting_input THEN "wait" ELSE "continue"

\* The edges of AriadneChain.to_graph: the index of the node that follows node
\* i, Len(elements) standing for END.
ThreadEdge(elements, i, state) ==
    IF elements[i + 1].kind = "human" /\ check_human(state) = "wait"
    THEN Len(elements)
    ELSE i + 1

\* passthrough, the only node of an empty Thread's graph
passthrough(state) == Merge(state, [status |-> "success"])

\* The Thread's graph run from node i to END, as a subgraph does.
RECURSIVE ThreadGraphFrom(_, _, _, _)
ThreadGraphFrom(elements, i, state, world) ==
    IF i >= Len(elements) THEN NodeReturns(state)
    ELSE LET n == ThreadNode(elements, i, state, world)
         IN  IF n.raised THEN n
             ELSE ThreadGraphFrom(elements, ThreadEdge(elements, i, n.state), n.state,
                                  world)

ThreadGraph(elements, state, world) ==
    IF elements = <<>> THEN NodeReturns(passthrough(state))
    ELSE ThreadGraphFrom(elements, 0, state, world)

\* check_ariadne of SDNAC.to_graph
check_ariadne(state) ==
    IF state.awaiting_input THEN "wait"
    ELSE IF state.status = "error" THEN "error"
    ELSE "continue"

\* HermesConfig.to_langgraph_node: the poimandres node
PoimandresNode(config, state, llm) ==
    LET ctx == state.context
        result == PoimandresExecute(config, ctx, llm)
    IN  IF result.blocked
        THEN Merge(state, [status |-> "blocked", error |-> "Poimandres blocked"])
        ELSE IF ~result.success
        THEN Merge(state, [status |-> "error", error |-> result.error])
        ELSE Merge(state, [context |-> CtxUpdate(ctx, result.output),
                           status |-> "success"])

\* The graph of SDNAC.to_graph run as a subgraph: the Thread's graph, then the
\* poimandres node when check_ariadne says continue.  generated tells whether
\* the poimandres node ran.
UnitGraph(unit, state, world, llm) ==
    LET a == ThreadGraph(unit.ariadne, state, world)
    IN  IF a.raised THEN [raised |-> TRUE, error |-> a.error, state |-> a.state,
                          generated |-> FALSE]
        ELSE IF check_ariadne(a.state) # "continue"
        THEN [raised |-> FALSE, error |-> None, state |-> a.state, generated |-> FALSE]
        ELSE [raised |-> FALSE, error |-> None,
              state |-> PoimandresNode(unit.config, a.state, llm), generated |-> TRUE]

\* int(...) of a counter that was written as a string
StrToInt(str) == CHOOSE n \in 0..(MaxIterations + 3) : ToString(n) = str

\* init_iteration of DUOAgent.to_graph
init_iteration(state) ==
    LET n == (IF "duo_iteration" \in DOMAIN state.context
              THEN StrToInt(state.context["duo_iteration"]) ELSE 0) + 1
    IN  Merge(state, [context |-> CtxSet(state.context, "duo_iteration", ToString(n)),
                      iteration |-> n])

\* check_target of DUOAgent.to_graph
check_target(state) == IF state.status = "success" THEN "continue" ELSE "stop"

\* check_ovp of DUOAgent.to_graph
check_ovp(agent, state) ==
    IF Truthy(CtxGet(state.context, agent.approval_key, False)) THEN "done"
    ELSE IF state.iteration >= agent.max_iterations THEN "max_iterations"
    ELSE "retry"

\* DUOAgent.execute replayed as one call on the model calls and worlds its
\* Units met in some other run: ts for the target's invocations, os for the
\* observer's, nt and no of which are used up.  The outcome tells the status
\* and how many invocations of each Unit were made; "starved" when execute
\* wants an invocation the other run did not make.
RECURSIVE DuoReplay(_, _, _, _, _, _, _)
DuoReplay(agent, iteration, ctx, ts, os, nt, no) ==
    IF ~DuoInRange(agent, iteration)
    THEN [status |-> DuoExhaustedResult(agent, ctx).status, targets |-> nt, ovps |-> no]
    ELSE IF nt >= Len(ts)
    THEN [status |-> "starved", targets |-> nt + 1, ovps |-> no]
    ELSE LET input == SetIteration(ctx, iteration + 1)
             target_result ==
                 SDNACExecute(agent.target, input, ts[nt + 1].world, ts[nt + 1].llm)
             ctx1 == PreserveTargetOutput(target_result.context)
         IN  IF DuoTargetReturns(target_result)
             THEN [status |-> DuoTargetResult(target_result, ctx1, iteration).status,
                   targets |-> nt + 1, ovps |-> no]
             ELSE IF no >= Len(os)
             THEN [status |-> "starved", targets |-> nt + 1, ovps |-> no + 1]
             ELSE LET ovp_result ==
                          SDNACExecute(agent.ovp, ctx1, os[no + 1].world, os[no + 1].llm)
                      ctx2 == ovp_result.context
                  IN  IF DuoOvpReturns(ovp_result)
                      THEN [status |-> DuoOvpResult(ovp_result, ctx2, iteration).status,
                            targets |-> nt + 1, ovps |-> no + 1]
                      ELSE IF Truthy(CtxGet(ctx2, agent.approval_key, False))
                      THEN [status |-> DuoApprovedResult(agent, ctx2, iteration).status,
                            targets |-> nt + 1, ovps |-> no + 1]
                      ELSE DuoReplay(agent, iteration + 1, ctx2, ts, os, nt + 1, no + 1)

DuoExecute(agent, context, ts, os) ==
    DuoReplay(agent, 0, SetIteration(DictCopy(context), 0), ts, os, 0, 0)

(***************************************************************************)
(* The Threads, worlds and caller contexts the model draws from.           *)
(***************************************************************************)
Elements ==
    { inject_literal("step1", "first"),
      human("Continue?", "answer", NoChoices),
      human("Which approach?", "choice", <<"A", "B">>),
      inject_file("spec.md", "second"),
      inject_func("utils", "get_data", "second",
                  [id |-> Ref("answer"), mode |-> Lit("fast")]),
      inject_env("API_KEY", "first", "none"),
      dovetail("join", {"first"}, [second |-> "first"]),
      inject_brain("/docs", Ref("first"), "knowledge"),
      weave("session_123", "woven") }

Threads == UNION { [1..n -> Elements] : n \in 0..MaxLen }

BaseWorld ==
    [files |-> {"spec.md"}, fn |-> "ok", environ |-> {"API_KEY"}, brain_dir |-> TRUE]

Worlds ==
    { BaseWorld,
      [BaseWorld EXCEPT !.files = {}, !.fn = "no_module"],
      [BaseWorld EXCEPT !.fn = "raises", !.environ = {}, !.brain_dir = FALSE] }

InitialContexts == { EmptyCtx, [k \in {"first", "project"} |-> "given " \o k] }

Answers == {"yes", "no"}

Event(text) == [has_text |-> TRUE, text |-> text]
NoTextEvent == [has_text |-> FALSE, text |-> ""]

ModelCall(sdk, brain_ok, events, fails) ==
    [sdk |-> sdk, brain_ok |-> brain_ok, events |-> events, fails |-> fails]

LLMs ==
    { ModelCall(TRUE, TRUE, <<Event("draft")>>, FALSE),
      ModelCall(TRUE, FALSE, <<Event("notes"), NoTextEvent, Event("final draft")>>, FALSE),
      ModelCall(TRUE, TRUE, <<Event(BlockedText)>>, FALSE),
      ModelCall(TRUE, TRUE, <<Event("partial")>>, TRUE),
      ModelCall(FALSE, TRUE, <<>>, FALSE) }

\* The model calls of a Generation Step: those above, and calls whose final text
\* holds the blocked block inside other text, holds only its opening tag, follows
\* an earlier text that held the block, or is empty.
StepLLMs ==
    LLMs \cup { ModelCall(TRUE, TRUE, <<Event(EmbeddedBlockedText)>>, FALSE),
                ModelCall(TRUE, TRUE, <<Event(UnclosedBlockedText)>>, FALSE),
                ModelCall(TRUE, TRUE, <<Event(BlockedText), Event("draft")>>, FALSE),
                ModelCall(TRUE, TRUE, <<NoTextEvent>>, FALSE) }

\* The contexts a Unit is called with: one holds a text entry already.
UnitContexts == InitialContexts \cup { [k \in {"text"} |-> "stale text"] }

Configs ==
    { HermesConfig("gen", {}, EmptyCtx, FALSE, FALSE),
      HermesConfig("templated", {"first", "mode"}, [k \in {"mode"} |-> "fast"], FALSE, FALSE),
      HermesConfig("brainy", {"project_context"}, EmptyCtx, TRUE, FALSE),
      HermesConfig("brainy_templated", {"project_context", "mode"}, EmptyCtx, TRUE, FALSE),
      HermesConfig("forking", {}, EmptyCtx, FALSE, TRUE) }

UnitThreads == UNION { [1..n -> Elements] : n \in 0..MaxUnitLen }

Units == { sdnac("unit", t, c) : t \in UnitThreads, c \in Configs }

GenConfig == HermesConfig("gen", {}, EmptyCtx, FALSE, FALSE)

FlowUnits ==
    { sdnac("bare", <<>>, GenConfig),
      sdnac("plain", <<inject_literal("step1", "first")>>, GenConfig),
      sdnac("gated", <<inject_literal("step1", "first"),
                       human("Continue?", "answer", NoChoices)>>, GenConfig),
      sdnac("file", <<inject_file("spec.md", "second")>>,
            HermesConfig("templated", {"second", "answer"}, EmptyCtx, FALSE, FALSE)) }

Flows == UNION { [1..n -> FlowUnits] : n \in 0..MaxUnits }

FlowWorlds == { BaseWorld, [BaseWorld EXCEPT !.files = {}] }

FlowLLMs == { llm \in LLMs : llm.sdk /\ llm.brain_ok }

TargetUnits ==
    { sdnac("generate", <<inject_literal("step1", "first")>>, GenConfig),
      sdnac("ask", <<inject_literal("step1", "first"),
                     human("Continue?", "answer", NoChoices)>>, GenConfig),
      sdnac("from_spec", <<inject_file("spec.md", "second")>>,
            HermesConfig("templated", {"second"}, EmptyCtx, FALSE, FALSE)) }

OvpUnits ==
    { sdnac("evaluate", <<inject_env("OVP_APPROVED", "ovp_approved", ""),
                          inject_literal("needs work", "ovp_feedback")>>, GenConfig),
      sdnac("evaluate_ask", <<inject_env("OVP_APPROVED", "ovp_approved", ""),
                              human("Accept?", "verdict", <<"yes", "no">>)>>, GenConfig),
      sdnac("evaluate_file", <<inject_file("spec.md", "ovp_feedback")>>, GenConfig) }

DuoAgents ==
    { duo_agent(t, o, m) : t \in TargetUnits, o \in OvpUnits, m \in 0..MaxIterations }

DuoWorlds ==
    { BaseWorld,
      [BaseWorld EXCEPT !.environ = {"OVP_APPROVED"}],
      [BaseWorld EXCEPT !.files = {}] }

DuoContexts == { EmptyCtx, [k \in {"ovp_approved"} |-> "yes"] }

\* The four Units of a DuoAgentV2: each either generates after a one-element
\* Thread or has a human gate in its Thread; at most one of the four is gated.
V2Unit(name) == sdnac(name, <<inject_literal("step1", "first")>>, GenConfig)
V2Gated(name) == sdnac(name, <<human("Continue?", "answer", NoChoices)>>, GenConfig)

V2Agents ==
    { duo_agent_v2(c, t, g, o, m) :
        c \in {V2Unit("challenger")}, t \in {V2Unit("generator")},
        g \in {V2Unit("gate")}, o \in {V2Unit("observer")},
        m \in 0..MaxV2Iterations }
    \cup { duo_agent_v2(V2Gated("challenger"), V2Unit("generator"), V2Unit("gate"),
                        V2Unit("observer"), MaxV2Iterations),
           duo_agent_v2(V2Unit("challenger"), V2Gated("generator"), V2Unit("gate"),
                        V2Unit("observer"), MaxV2Iterations),
           duo_agent_v2(V2Unit("challenger"), V2Unit("generator"), V2Gated("gate"),
                        V2Unit("observer"), MaxV2Iterations),
           duo_agent_v2(V2Unit("challenger"), V2Unit("generator"), V2Unit("gate"),
                        V2Gated("observer"), MaxV2Iterations) }

V2Contexts == { EmptyCtx, [k \in {"project"} |-> "given " \o k] }

\* What the model may answer at each stage.
Says(text) == ModelCall(TRUE, TRUE, <<Event(text)>>, FALSE)
CallFails == ModelCall(TRUE, TRUE, <<Event("partial")>>, TRUE)

ChallengeLLMs == { Says(ChallengeText), Says(BlockedText), CallFails }
TargetLLMs == { Says(DeliverableText), Says("draft"), Says(BlockedText), CallFails }
GateLLMs ==
    { Says(GatePassText), Says(GateFailText), Says("draft"), Says(BlockedText), CallFails }
OvpLLMs == { Says(OvpApproveText), Says(OvpRejectText), Says(BlockedText), CallFails }

(***************************************************************************)
(* State.                                                                  *)
(*   elements, world  the Thread under execution and the outside world     *)
(*   th_input         the context the caller passed to the first call      *)
(*   th_context       the context argument of the current call             *)
(*   th_start         the start_at argument of the first call              *)
(*   th_pc, th_i, th_ctx   position in execute: the loop index and ctx     *)
(*   th_results       the results of the calls that have returned          *)
(*   th_applied       indices of the elements applied so far, in order     *)
(*   th_answers       the answers the human has given so far               *)
(***************************************************************************)
VARIABLES elements, world, th_input, th_context, th_start, th_pc, th_i, th_ctx,
          th_results, th_applied, th_answers

(***************************************************************************)
(*   u_unit, u_world  the SDNAC under execution and the outside world      *)
(*   u_input          the context the caller passed to the first call      *)
(*   u_context        the context argument of the current call             *)
(*   u_pc, u_ctx      position in SDNAC.execute and its ctx                *)
(*   u_ars            the Thread's result in each call so far              *)
(*   u_results        the results of the calls that have returned          *)
(*   u_gen_calls      Generation Step invocations in the current call      *)
(*   u_answers        the answers the human has given so far               *)
(*   u_steps          what agent_step did in the current call: whether it  *)
(*                    raised, and the status and error it returned         *)
(***************************************************************************)
VARIABLES u_unit, u_world, u_input, u_context, u_pc, u_ctx, u_ars, u_results,
          u_gen_calls, u_answers, u_steps

th_vars == <<elements, world, th_input, th_context, th_start, th_pc, th_i, th_ctx,
             th_results, th_applied, th_answers>>

u_vars == <<u_unit, u_world, u_input, u_context, u_pc, u_ctx, u_ars, u_results,
            u_gen_calls, u_answers, u_steps>>

(***************************************************************************)
(*   f_flow, f_world  the SDNAFlow (its sdnacs) and the outside world      *)
(*   f_input          the context the caller passed to the first call      *)
(*   f_context        the context argument of the current call             *)
(*   f_pc, f_i, f_ctx position in SDNAFlow.execute: loop index and ctx     *)
(*   f_results        the results of the calls that have returned          *)
(*   f_log            one entry per Unit execution: the call it belongs    *)
(*                    to, the Unit's index, the context it was given, its  *)
(*                    result, the start index its Thread ran from and the  *)
(*                    Thread's result                                      *)
(*   f_answers        the answers the human has given so far               *)
(***************************************************************************)
VARIABLES f_flow, f_world, f_input, f_context, f_pc, f_i, f_ctx, f_results, f_log,
          f_answers

f_vars == <<f_flow, f_world, f_input, f_context, f_pc, f_i, f_ctx, f_results, f_log,
            f_answers>>

(***************************************************************************)
(*   d_agent          the DUOAgent: target, ovp, max_iterations, keys      *)
(*   d_input          the context the caller passed                        *)
(*   d_context        the caller's dict, as the caller sees it now         *)
(*   d_pc             position in DUOAgent.execute                         *)
(*   d_iteration      the loop variable iteration                          *)
(*   d_ctx            ctx                                                  *)
(*   d_results        the returned DUOResult, once execute has returned    *)
(*   d_log            one entry per Unit execution: who ran (target or     *)
(*                    ovp), in which iteration (counted from 1), its       *)
(*                    status, the context it was given and the context of  *)
(*                    its result                                           *)
(***************************************************************************)
VARIABLES d_agent, d_input, d_context, d_pc, d_iteration, d_ctx, d_results, d_log

d_vars == <<d_agent, d_input, d_context, d_pc, d_iteration, d_ctx, d_results, d_log>>

(***************************************************************************)
(*   v_agent          the DuoAgentV2: its four Units and max_iterations    *)
(*   v_input          the context the caller passed                        *)
(*   v_pc             position in DuoAgentV2.execute: the stage to run     *)
(*   v_iteration      the loop variable iteration                          *)
(*   v_ctx            ctx                                                  *)
(*   v_results        the returned DUOv2Result, once execute has returned  *)
(*   v_log            one entry per Unit execution: the stage, the         *)
(*                    iteration (counted from 1), the Unit's status, the   *)
(*                    context it was given and the output text read from   *)
(*                    its result                                           *)
(***************************************************************************)
VARIABLES v_agent, v_input, v_pc, v_iteration, v_ctx, v_results, v_log

v_vars == <<v_agent, v_input, v_pc, v_iteration, v_ctx, v_results, v_log>>

(***************************************************************************)
(* State of a compiled graph under invocation.                             *)
(*   g_graph          what was compiled: a Thread's elements or a DUOAgent *)
(*   g_world          the outside world (of a Thread's graph)              *)
(*   g_input          the context the caller put in the first state        *)
(*   g_pc, g_i        position: the node about to run                      *)
(*   g_state          the SDNAState of the invocation in progress          *)
(*   g_results        how each finished invocation ended: whether it       *)
(*                    raised, the final state, and the edge taken to END   *)
(*   g_log            one entry per node run (a Thread's graph: the        *)
(*                    invocation and the node's index) or per Unit         *)
(*                    subgraph run (a DUOAgent's graph: who, the world and *)
(*                    model call it met, whether it generated, the status) *)
(*   g_answers        the answers the human has given so far               *)
(***************************************************************************)
VARIABLES g_graph, g_world, g_input, g_pc, g_i, g_state, g_results, g_log, g_answers

g_vars == <<g_graph, g_world, g_input, g_pc, g_i, g_state, g_results, g_log, g_answers>>

(***************************************************************************)
(* State of one call of extract_tags.                                      *)
(*   t_output, t_tag_names   the arguments                                 *)
(*   t_pc                    "idle" before the call, "done" after it       *)
(*   t_result                the dict returned                             *)
(***************************************************************************)
VARIABLES t_output, t_tag_names, t_pc, t_result

t_vars == <<t_output, t_tag_names, t_pc, t_result>>

(***************************************************************************)
(* State of one call of Brain.cognize.                                     *)
(*   b_neurons       how many neurons the brain has loaded                 *)
(*   b_sdk           whether the agent SDK could be imported               *)
(*   b_max_relevant  the argument max_relevant                             *)
(*   b_limit         the number of scoring calls the caller wants in       *)
(*                   flight at most; cognize has no parameter that takes it*)
(*   b_pc            "idle", "gather" while the tasks run, "done"          *)
(*   b_tasks         per neuron, where its _check_relevance task is:       *)
(*                   "created", "in_flight" (its model call is under way), *)
(*                   "done"                                                *)
(*   b_scores        per neuron, what its finished task returned           *)
(*   b_result        the neurons returned, in order                        *)
(*   b_peak          the largest number of scoring calls seen in flight    *)
(***************************************************************************)
VARIABLES b_neurons, b_sdk, b_max_relevant, b_limit, b_pc, b_tasks, b_scores, b_result,
          b_peak

b_vars == <<b_neurons, b_sdk, b_max_relevant, b_limit, b_pc, b_tasks, b_scores, b_result,
            b_peak>>

\* The state of the functions and collaborators called on their own.
aux_vars == <<t_vars, b_vars>>

\* Which component's execute, or which graph, the caller has invoked.
VARIABLE running

vars == <<th_vars, u_vars, f_vars, d_vars, v_vars, g_vars, aux_vars, running>>

\* What the actions of one component leave alone: the other components.
NotThread == <<u_vars, f_vars, d_vars, v_vars, g_vars, aux_vars, running>>
NotUnit == <<th_vars, f_vars, d_vars, v_vars, g_vars, aux_vars, running>>
NotFlow == <<th_vars, u_vars, d_vars, v_vars, g_vars, aux_vars, running>>
NotDuo == <<th_vars, u_vars, f_vars, v_vars, g_vars, aux_vars, running>>
NotV2 == <<th_vars, u_vars, f_vars, d_vars, g_vars, aux_vars, running>>
NotGraph == <<th_vars, u_vars, f_vars, d_vars, v_vars, aux_vars, running>>

\* A component that is not the one under execution stays as constructed.
ThreadIdle ==
    /\ elements = <<>>
    /\ world = BaseWorld
    /\ th_input = EmptyCtx
    /\ th_context = EmptyCtx
    /\ th_start = 0
    /\ th_pc = "idle"
    /\ th_i = 0
    /\ th_ctx = EmptyCtx
    /\ th_results = <<>>
    /\ th_applied = <<>>
    /\ th_answers = <<>>

UnitIdle ==
    /\ u_unit = sdnac("unit", <<>>, GenConfig)
    /\ u_world = BaseWorld
    /\ u_input = EmptyCtx
    /\ u_context = EmptyCtx
    /\ u_pc = "idle"
    /\ u_ctx = EmptyCtx
    /\ u_ars = <<>>
    /\ u_results = <<>>
    /\ u_gen_calls = 0
    /\ u_answers = <<>>
    /\ u_steps = <<>>

FlowIdle ==
    /\ f_flow = <<>>
    /\ f_world = BaseWorld
    /\ f_input = EmptyCtx
    /\ f_context = EmptyCtx
    /\ f_pc = "idle"
    /\ f_i = 0
    /\ f_ctx = EmptyCtx
    /\ f_results = <<>>
    /\ f_log = <<>>
    /\ f_answers = <<>>

DuoIdle ==
    /\ d_agent = duo_agent(sdnac("unit", <<>>, GenConfig), sdnac("unit", <<>>, GenConfig), 0)
    /\ d_input = EmptyCtx
    /\ d_context = EmptyCtx
    /\ d_pc = "idle"
    /\ d_iteration = 0
    /\ d_ctx = EmptyCtx
    /\ d_results = <<>>
    /\ d_log = <<>>

V2Idle ==
    /\ v_agent = duo_agent_v2(V2Unit("challenger"), V2Unit("generator"), V2Unit("gate"),
                              V2Unit("observer"), 0)
    /\ v_input = EmptyCtx
    /\ v_pc = "idle"
    /\ v_iteration = 0
    /\ v_ctx = EmptyCtx
    /\ v_results = <<>>
    /\ v_log = <<>>

TagsIdle ==
    /\ t_output = ""
    /\ t_tag_names = {}
    /\ t_pc = "idle"
    /\ t_result = EmptyCtx

BrainIdle ==
    /\ b_neurons = 0
    /\ b_sdk = TRUE
    /\ b_max_relevant = 0
    /\ b_limit = 0
    /\ b_pc = "idle"
    /\ b_tasks = <<>>
    /\ b_scores = <<>>
    /\ b_result = <<>>
    /\ b_peak = 0

\* The functions and collaborators called on their own are not in use.
AuxIdle == TagsIdle /\ BrainIdle

GraphIdle ==
    /\ g_graph = [kind |-> "none"]
    /\ g_world = BaseWorld
    /\ g_input = EmptyCtx
    /\ g_pc = "idle"
    /\ g_i = 0
    /\ g_state = initial_state(EmptyCtx)
    /\ g_results = <<>>
    /\ g_log = <<>>
    /\ g_answers = <<>>

th_calls == Len(th_answers) + (IF th_pc = "idle" THEN 0 ELSE 1)
th_result == th_results[Len(th_results)]
th_done == th_pc = "done"

ThreadInit ==
    /\ elements \in Threads
    /\ world \in Worlds
    /\ th_input \in InitialContexts
    /\ th_context = th_input
    /\ th_start = 0
    /\ th_pc = "idle"
    /\ th_i = 0
    /\ th_ctx = EmptyCtx
    /\ th_results = <<>>
    /\ th_applied = <<>>
    /\ th_answers = <<>>

\* thread.execute(context, start_at): entry, ctx = dict(context)
ThreadCall ==
    /\ th_pc = "idle"
    /\ \E start_at \in 0..(Len(elements) + 1) :
          /\ th_start' = start_at
          /\ th_i' = start_at
    /\ th_ctx' = DictCopy(th_context)
    /\ th_pc' = "loop"
    /\ UNCHANGED <<elements, world, th_input, th_context, th_results, th_applied,
                   th_answers>>
    /\ UNCHANGED NotThread

\* one iteration of the for loop
ThreadIter ==
    /\ th_pc = "loop"
    /\ th_i < Len(elements)
    /\ LET it == AriadneIter(elements, th_i, th_ctx, world)
       IN  IF it.ret
           THEN /\ th_results' = Append(th_results, it.result)
                /\ th_pc' = "done"
                /\ UNCHANGED <<th_i, th_ctx, th_applied>>
           ELSE /\ th_ctx' = it.ctx
                /\ th_i' = th_i + 1
                /\ th_applied' = Append(th_applied, th_i)
                /\ UNCHANGED <<th_results, th_pc>>
    /\ th_context' = CallerSees(th_context, th_ctx')
    /\ UNCHANGED <<elements, world, th_input, th_start, th_answers>>
    /\ UNCHANGED NotThread

\* the loop is exhausted: return SUCCESS
ThreadReturn ==
    /\ th_pc = "loop"
    /\ th_i >= Len(elements)
    /\ th_results' = Append(th_results, SuccessResult(th_ctx))
    /\ th_pc' = "done"
    /\ UNCHANGED <<elements, world, th_input, th_context, th_start, th_i, th_ctx,
                   th_applied, th_answers>>
    /\ UNCHANGED NotThread

\* The caller resumes as in test_ariadne_resume_after_human:
\*   ctx = result.context.copy(); ctx[key] = answer
\*   thread.execute(ctx, start_at=result.resume_at)
ThreadResume ==
    /\ th_pc = "done"
    /\ th_result.status = "awaiting_input"
    /\ \E answer \in Answers :
          /\ th_context' = CtxSet(th_result.context, th_result.pending_input_key, answer)
          /\ th_answers' = Append(th_answers, answer)
    /\ th_ctx' = DictCopy(th_context')
    /\ th_i' = th_result.resume_at
    /\ th_pc' = "loop"
    /\ UNCHANGED <<elements, world, th_input, th_start, th_results, th_applied>>
    /\ UNCHANGED NotThread

ThreadNext == ThreadCall \/ ThreadIter \/ ThreadReturn \/ ThreadResume

\* After construction: a Thread is under execution; nothing else is.
ThreadStart ==
    ThreadInit /\ UnitIdle /\ FlowIdle /\ DuoIdle /\ V2Idle /\ GraphIdle /\ AuxIdle
    /\ running = "thread"

SpecThread == ThreadStart /\ [][ThreadNext]_vars

(***************************************************************************)
(* Reference semantics used to state the Thread claims.                    *)
(***************************************************************************)
\* The index of the first human gate at or after s, or NoIndex.
FirstGate(elems, s) ==
    LET gates == {k \in s..(Len(elems) - 1) : elems[k + 1].kind = "human"}
    IN  IF gates = {} THEN NoIndex
        ELSE CHOOSE k \in gates : \A j \in gates : k <= j

GateCount(elems) == Cardinality({k \in 1..Len(elems) : elems[k].kind = "human"})

\* The effects of the elements from..to-1, applied in order to ctx.
RECURSIVE ApplyRange(_, _, _, _, _)
ApplyRange(elems, from, to, ctx, w) ==
    IF from >= to THEN Return(ctx)
    ELSE LET r == ElemExecute(elems[from + 1], ctx, w)
         IN  IF r.raised THEN r ELSE ApplyRange(elems, from + 1, to, r.ctx, w)

\* The whole sequence run without pausing: gate number g writes answers[g]
\* at its result key, in the gate's position.
RECURSIVE NoPause(_, _, _, _, _, _)
NoPause(elems, i, ctx, w, answers, g) ==
    IF i >= Len(elems) THEN Return(ctx)
    ELSE LET elem == elems[i + 1]
         IN  IF elem.kind = "human"
             THEN IF g > Len(answers) THEN Raise("no answer", ctx)
                  ELSE NoPause(elems, i + 1, CtxSet(ctx, elem.input_key, answers[g]),
                               w, answers, g + 1)
             ELSE LET r == ElemExecute(elem, ctx, w)
                  IN  IF r.raised THEN r
                      ELSE NoPause(elems, i + 1, r.ctx, w, answers, g)

FirstCallDone == th_done /\ Len(th_results) = 1

\* C1: a Thread executed from start index s whose first gate at or after s is at
\* index k, with no element of s..k-1 raising, returns AwaitingInput with resume
\* index k+1 (between 1 and the number of elements) and the gate's prompt,
\* result key and choices.
C1_GateSuspends ==
    LET k == FirstGate(elements, th_start)
    IN  (/\ FirstCallDone
         /\ k # NoIndex
         /\ ~ApplyRange(elements, th_start, k, th_input, world).raised)
        => /\ th_result.status = "awaiting_input"
           /\ th_result.resume_at = k + 1
           /\ 1 <= th_result.resume_at
           /\ th_result.resume_at <= Len(elements)
           /\ th_result.pending_prompt = elements[k + 1].prompt
           /\ th_result.pending_input_key = elements[k + 1].input_key
           /\ th_result.pending_choices = elements[k + 1].choices

\* A call from s > 0 that applied an element and then met a gate with choices.
C1_Witness ==
    /\ FirstCallDone
    /\ th_start > 0
    /\ FirstGate(elements, th_start) > th_start
    /\ th_result.status = "awaiting_input"
    /\ th_result.pending_choices # NoChoices

\* C2: when a Thread run from index 0 suspends at the gate at index k, the
\* returned context is exactly the effects of elements 0..k-1 applied in order
\* to the input context, and the elements applied are exactly 0..k-1.
C2_ContextAtGate ==
    LET k == FirstGate(elements, 0)
    IN  (FirstCallDone /\ th_start = 0 /\ th_result.status = "awaiting_input")
        => /\ k # NoIndex
           /\ th_result.context = ApplyRange(elements, 0, k, th_input, world).ctx
           /\ th_applied = [j \in 1..k |-> j - 1]

\* A suspension at index 2 of a Thread with a further element after the gate,
\* whose gate's result key is not in the returned context.
C2_Witness ==
    /\ FirstCallDone
    /\ th_start = 0
    /\ th_result.status = "awaiting_input"
    /\ th_result.resume_at = 2
    /\ Len(elements) = 3
    /\ elements[3].kind # "human"
    /\ th_result.pending_input_key \notin DOMAIN th_result.context
    /\ th_result.context # th_input

\* C3: executing from index 0, then executing again from the returned resume
\* index with the returned context plus the human's answer at the gate's result
\* key, ends in Success with the final context of the same sequence run without
\* pausing with the answer written at the result key in the gate's position.
C3_ResumeEquivalence ==
    LET ref == NoPause(elements, 0, th_input, world, th_answers, 1)
    IN  /\ (th_done /\ th_start = 0 /\ Len(th_results) >= 2
              /\ th_result.status = "success")
           => (~ref.raised /\ th_result.context = ref.ctx)
        /\ (th_done /\ th_start = 0 /\ Len(th_results) = 2
              /\ GateCount(elements) = 1 /\ ~ref.raised)
           => th_result.status = "success"

\* A resumed run of literal, gate, function-of-the-answer that ended in Success.
C3_Witness ==
    /\ th_done
    /\ th_start = 0
    /\ Len(th_results) = 2
    /\ GateCount(elements) = 1
    /\ th_result.status = "success"
    /\ Len(th_applied) = 2
    /\ "answer" \in DOMAIN th_result.context
    /\ "second" \in DOMAIN th_result.context
    /\ th_result.context["second"] = "data for " \o th_answers[1]

(***************************************************************************)
(* SDNAC.execute, step by step: entry, the Thread, the Generation Step.    *)
(* The caller of a suspended Unit can only call execute(context) again,    *)
(* with the suspension context plus the human's answer.                    *)
(***************************************************************************)
u_result == u_results[Len(u_results)]
u_ar == u_ars[Len(u_ars)]
u_done == u_pc = "done"

UnitInit ==
    /\ u_unit \in Units
    /\ u_world \in Worlds
    /\ u_input \in UnitContexts
    /\ u_context = u_input
    /\ u_pc = "idle"
    /\ u_ctx = EmptyCtx
    /\ u_ars = <<>>
    /\ u_results = <<>>
    /\ u_gen_calls = 0
    /\ u_answers = <<>>
    /\ u_steps = <<>>

\* unit.execute(context): entry, ctx = dict(context)
UnitCall ==
    /\ u_pc = "idle"
    /\ u_ctx' = DictCopy(u_context)
    /\ u_pc' = "ariadne"
    /\ UNCHANGED <<u_unit, u_world, u_input, u_context, u_ars, u_results,
                   u_gen_calls, u_answers, u_steps>>
    /\ UNCHANGED NotUnit

\* ariadne_result = await self.ariadne.execute(ctx), and the status check
UnitAriadne ==
    /\ u_pc = "ariadne"
    /\ LET ariadne_result == SDNACAriadne(u_unit, u_ctx, u_world)
       IN  /\ u_ars' = Append(u_ars, ariadne_result)
           /\ u_ctx' = ariadne_result.context
           /\ IF SDNACReturnsEarly(ariadne_result)
              THEN /\ u_results' = Append(u_results, SDNACEarlyResult(ariadne_result))
                   /\ u_pc' = "done"
              ELSE /\ u_pc' = "poimandres"
                   /\ UNCHANGED u_results
    /\ u_context' = CallerSees(u_context, u_ctx')
    /\ UNCHANGED <<u_unit, u_world, u_input, u_gen_calls, u_answers, u_steps>>
    /\ UNCHANGED NotUnit

\* What agent_step does when poimandres.execute calls it with the model call
\* llm: it raises, or it returns a StepResult with a status, an output and an
\* error; how often it called the model, which reports it saved, and what
\* poimandres.execute made of it.
StepOutcome(config, ctx, llm) ==
    LET step == agent_step(config, DictCopy(ctx), llm)
    IN  [llm |-> llm,
         raised |-> step.raised,
         status |-> step.result.status,
         output |-> step.result.output,
         error |-> IF step.raised THEN step.error ELSE step.result.error,
         queries |-> step.queries,
         retrievals |-> Retrievals(config, llm),
         saved |-> step.saved,
         poimandres |-> PoimandresExecute(config, ctx, llm)]

\* poimandres_result = await poimandres.execute(self.config, ctx), and the return;
\* SDNAC.execute has no try, so an exception of the callee would pass through it.
UnitPoimandres ==
    /\ u_pc = "poimandres"
    /\ \E llm \in StepLLMs :
          LET poimandres_result == PoimandresExecute(u_unit.config, u_ctx, llm)
          IN  /\ u_steps' = Append(u_steps, StepOutcome(u_unit.config, u_ctx, llm))
              /\ IF Escapes(poimandres_result)
                 THEN /\ u_pc' = "raised"
                      /\ UNCHANGED <<u_results, u_context>>
                 ELSE /\ u_results' =
                            Append(u_results, SDNACFinalResult(u_ctx, poimandres_result))
                      /\ u_context' = CallerSees(u_context, u_result'.context)
                      /\ u_pc' = "done"
    /\ u_gen_calls' = u_gen_calls + 1
    /\ UNCHANGED <<u_unit, u_world, u_input, u_ctx, u_ars, u_answers>>
    /\ UNCHANGED NotUnit

\* The caller answers the gate and calls unit.execute again.
UnitResume ==
    /\ u_pc = "done"
    /\ u_result.status = "awaiting_input"
    /\ Len(u_answers) < MaxResumes
    /\ \E answer \in Answers :
          /\ u_context' = CtxSet(u_result.context, u_result.pending_input_key, answer)
          /\ u_answers' = Append(u_answers, answer)
    /\ u_ctx' = DictCopy(u_context')
    /\ u_gen_calls' = 0
    /\ u_steps' = <<>>
    /\ u_pc' = "ariadne"
    /\ UNCHANGED <<u_unit, u_world, u_input, u_ars, u_results>>
    /\ UNCHANGED NotUnit

UnitNext == UnitCall \/ UnitAriadne \/ UnitPoimandres \/ UnitResume

\* After construction: a Unit is under execution; nothing else is.
UnitStart ==
    UnitInit /\ ThreadIdle /\ FlowIdle /\ DuoIdle /\ V2Idle /\ GraphIdle /\ AuxIdle
    /\ running = "unit"

SpecUnit == UnitStart /\ [][UnitNext]_vars

\* C4: a Unit whose Thread suspended at a gate, executed again with the
\* suspension context plus the human's answer, continues after the gate and does
\* not suspend again at the same gate.
C4_UnitResumesAfterGate ==
    (u_done /\ Len(u_results) >= 2)
    => ~(/\ u_result.status = "awaiting_input"
         /\ u_ar.resume_at = u_ars[Len(u_ars) - 1].resume_at)

\* C5: when the Unit's Thread returns AwaitingInput the Unit's outcome carries the
\* same context, prompt, result key, choices and resume index.
C5_AwaitingPassThrough ==
    (u_done /\ u_ar.status = "awaiting_input")
    => /\ u_result.status = "awaiting_input"
       /\ u_result.context = u_ar.context
       /\ u_result.pending_prompt = u_ar.pending_prompt
       /\ u_result.pending_input_key = u_ar.pending_input_key
       /\ "pending_choices" \in DOMAIN u_result
       /\ u_result.pending_choices = u_ar.pending_choices
       /\ "resume_at" \in DOMAIN u_result
       /\ u_result.resume_at = u_ar.resume_at

\* C6: within one SDNAC.execute the Generation Step is invoked at most once, only
\* after the Thread has returned, and only when the Thread's outcome is Success;
\* when the Thread suspends or errors it is not invoked.
C6_GenerationOnlyAfterSuccess ==
    /\ u_gen_calls \in {0, 1}
    /\ (u_gen_calls = 1 \/ u_pc = "poimandres")
       => (Len(u_ars) = Len(u_answers) + 1 /\ u_ar.status = "success")
    /\ (u_done /\ u_ar.status # "success") => u_gen_calls = 0

\* A Unit with a two-element Thread that generated once and succeeded.
C6_Witness ==
    /\ u_done
    /\ Len(u_unit.ariadne) = 2
    /\ u_ar.status = "success"
    /\ u_gen_calls = 1
    /\ u_result.status = "success"

(***************************************************************************)
(* SDNAFlow.execute, one Unit per step.  The caller of a suspended Flow    *)
(* can only call execute(context) again, with the suspension context plus  *)
(* the human's answer.                                                     *)
(***************************************************************************)
f_result == f_results[Len(f_results)]
f_done == f_pc = "done"
f_run == Len(f_answers) + 1

FlowInit ==
    /\ f_flow \in Flows
    /\ f_world \in FlowWorlds
    /\ f_input \in InitialContexts
    /\ f_context = f_input
    /\ f_pc = "idle"
    /\ f_i = 0
    /\ f_ctx = EmptyCtx
    /\ f_results = <<>>
    /\ f_log = <<>>
    /\ f_answers = <<>>

\* flow.execute(context): entry, ctx = dict(context)
FlowCall ==
    /\ f_pc = "idle"
    /\ f_ctx' = DictCopy(f_context)
    /\ f_i' = 0
    /\ f_pc' = "loop"
    /\ UNCHANGED <<f_flow, f_world, f_input, f_context, f_results, f_log, f_answers>>
    /\ UNCHANGED NotFlow

\* one iteration of the for loop: result = await sdnac.execute(ctx)
FlowUnit ==
    /\ f_pc = "loop"
    /\ f_i < Len(f_flow)
    /\ \E llm \in FlowLLMs :
          LET unit == f_flow[f_i + 1]
              result == SDNACExecute(unit, f_ctx, f_world, llm)
              entry == [run |-> f_run, unit |-> f_i, input |-> f_ctx, result |-> result,
                        start_at |-> DefaultStartAt,
                        ariadne |-> SDNACAriadne(unit, DictCopy(f_ctx), f_world)]
          IN  /\ f_log' = Append(f_log, entry)
              /\ f_ctx' = result.context
              /\ IF FlowHalts(result)
                 THEN /\ f_results' = Append(f_results, FlowHaltResult(result, f_i))
                      /\ f_pc' = "done"
                      /\ UNCHANGED f_i
                 ELSE /\ f_i' = f_i + 1
                      /\ UNCHANGED <<f_results, f_pc>>
    /\ f_context' = CallerSees(f_context, f_ctx')
    /\ UNCHANGED <<f_flow, f_world, f_input, f_answers>>
    /\ UNCHANGED NotFlow

\* the loop is exhausted: return SUCCESS
FlowReturn ==
    /\ f_pc = "loop"
    /\ f_i >= Len(f_flow)
    /\ f_results' = Append(f_results, FlowSuccessResult(f_ctx))
    /\ f_pc' = "done"
    /\ UNCHANGED <<f_flow, f_world, f_input, f_context, f_i, f_ctx, f_log, f_answers>>
    /\ UNCHANGED NotFlow

\* The caller answers the gate and calls flow.execute again.
FlowResume ==
    /\ f_pc = "done"
    /\ f_result.status = "awaiting_input"
    /\ Len(f_answers) < MaxFlowResumes
    /\ \E answer \in Answers :
          /\ f_context' = CtxSet(f_result.context, f_result.pending_input_key, answer)
          /\ f_answers' = Append(f_answers, answer)
    /\ f_ctx' = DictCopy(f_context')
    /\ f_i' = 0
    /\ f_pc' = "loop"
    /\ UNCHANGED <<f_flow, f_world, f_input, f_results, f_log>>
    /\ UNCHANGED NotFlow

FlowNext == FlowCall \/ FlowUnit \/ FlowReturn \/ FlowResume

\* After construction: a Flow is under execution; nothing else is.
FlowStart ==
    FlowInit /\ ThreadIdle /\ UnitIdle /\ DuoIdle /\ V2Idle /\ GraphIdle /\ AuxIdle
    /\ running = "flow"

SpecFlow == FlowStart /\ [][FlowNext]_vars

(***************************************************************************)
(* DUOAgent.execute: entry, the target's half of an iteration, the         *)
(* observer's half, and the return after the loop.                         *)
(***************************************************************************)
d_result == d_results[Len(d_results)]
d_done == d_pc = "done"

DuoInit ==
    /\ d_agent \in DuoAgents
    /\ d_input \in DuoContexts
    /\ d_context = d_input
    /\ d_pc = "idle"
    /\ d_iteration = 0
    /\ d_ctx = EmptyCtx
    /\ d_results = <<>>
    /\ d_log = <<>>

\* duo.execute(context): ctx = dict(context); ctx["duo_iteration"] = 0
DuoCall ==
    /\ d_pc = "idle"
    /\ d_ctx' = SetIteration(DictCopy(d_input), 0)
    /\ d_iteration' = 0
    /\ d_pc' = "target"
    /\ d_context' = CallerSees(d_context, d_ctx')
    /\ UNCHANGED <<d_agent, d_input, d_results, d_log>>
    /\ UNCHANGED NotDuo

\* The first half of an iteration: the target runs and its status is checked.
DuoTarget ==
    /\ d_pc = "target"
    /\ DuoInRange(d_agent, d_iteration)
    /\ \E w \in DuoWorlds, llm \in LLMs :
          LET input == SetIteration(d_ctx, d_iteration + 1)
              target_result == SDNACExecute(d_agent.target, input, w, llm)
              ctx == PreserveTargetOutput(target_result.context)
          IN  /\ d_log' = Append(d_log, [who |-> "target", iteration |-> d_iteration + 1,
                                         status |-> target_result.status,
                                         input |-> input,
                                         context |-> target_result.context])
              /\ d_ctx' = ctx
              /\ IF DuoTargetReturns(target_result)
                 THEN /\ d_results' =
                            Append(d_results, DuoTargetResult(target_result, ctx, d_iteration))
                      /\ d_pc' = "done"
                 ELSE /\ d_pc' = "ovp"
                      /\ UNCHANGED d_results
    /\ d_context' = CallerSees(d_context, d_ctx')
    /\ UNCHANGED <<d_agent, d_input, d_iteration>>
    /\ UNCHANGED NotDuo

\* The second half: the observer runs, its status is checked, then approval.
DuoOvp ==
    /\ d_pc = "ovp"
    /\ \E w \in DuoWorlds, llm \in LLMs :
          LET ovp_result == SDNACExecute(d_agent.ovp, d_ctx, w, llm)
              ctx == ovp_result.context
              approved == CtxGet(ctx, d_agent.approval_key, False)
          IN  /\ d_log' = Append(d_log, [who |-> "ovp", iteration |-> d_iteration + 1,
                                         status |-> ovp_result.status,
                                         input |-> d_ctx,
                                         context |-> ovp_result.context])
              /\ d_ctx' = ctx
              /\ IF DuoOvpReturns(ovp_result)
                 THEN /\ d_results' =
                            Append(d_results, DuoOvpResult(ovp_result, ctx, d_iteration))
                      /\ d_pc' = "done"
                      /\ UNCHANGED d_iteration
                 ELSE IF Truthy(approved)
                 THEN /\ d_results' =
                            Append(d_results, DuoApprovedResult(d_agent, ctx, d_iteration))
                      /\ d_pc' = "done"
                      /\ UNCHANGED d_iteration
                 ELSE /\ d_iteration' = d_iteration + 1
                      /\ d_pc' = "target"
                      /\ UNCHANGED d_results
    /\ d_context' = CallerSees(d_context, d_ctx')
    /\ UNCHANGED <<d_agent, d_input>>
    /\ UNCHANGED NotDuo

\* The loop is exhausted: return MAX_ITERATIONS.
DuoExhausted ==
    /\ d_pc = "target"
    /\ ~DuoInRange(d_agent, d_iteration)
    /\ d_results' = Append(d_results, DuoExhaustedResult(d_agent, d_ctx))
    /\ d_pc' = "done"
    /\ UNCHANGED <<d_agent, d_input, d_context, d_iteration, d_ctx, d_log>>
    /\ UNCHANGED NotDuo

DuoNext == DuoCall \/ DuoTarget \/ DuoOvp \/ DuoExhausted

\* After construction: a DUOAgent is under execution; nothing else is.
DuoStart ==
    DuoInit /\ ThreadIdle /\ UnitIdle /\ FlowIdle /\ V2Idle /\ GraphIdle /\ AuxIdle
    /\ running = "duo"

SpecDuo == DuoStart /\ [][DuoNext]_vars

(***************************************************************************)
(* DuoAgentV2.execute, stage by stage: challenge, target, gate, observer.  *)
(***************************************************************************)
v_result == v_results[Len(v_results)]
v_done == v_pc = "done"

\* What the log keeps of one Unit execution.
V2Entry(who, iteration, input, result) ==
    [who |-> who, iteration |-> iteration + 1, status |-> result.status,
     input |-> input, output |-> V2Output(result)]

V2Init ==
    /\ v_agent \in V2Agents
    /\ v_input \in V2Contexts
    /\ v_pc = "idle"
    /\ v_iteration = 0
    /\ v_ctx = EmptyCtx
    /\ v_results = <<>>
    /\ v_log = <<>>

\* execute(context): ctx = dict(context); ctx["attempt_feedback"] = "(first attempt)"
V2Call ==
    /\ v_pc = "idle"
    /\ v_ctx' = CtxSet(DictCopy(v_input), "attempt_feedback", "(first attempt)")
    /\ v_iteration' = 0
    /\ v_pc' = "challenge"
    /\ UNCHANGED <<v_agent, v_input, v_results, v_log>>
    /\ UNCHANGED NotV2

\* Top of an iteration and Step 1: Ariadne challenges.
V2Challenge ==
    /\ v_pc = "challenge"
    /\ v_iteration < v_agent.max_iterations
    /\ \E llm \in ChallengeLLMs :
          LET ctx == SetIteration(v_ctx, v_iteration + 1)
              result == SDNACExecute(v_agent.ariadne, ctx, BaseWorld, llm)
          IN  /\ v_log' = Append(v_log, V2Entry("challenge", v_iteration, ctx, result))
              /\ IF V2StageReturns(result)
                 THEN /\ v_results' = Append(v_results, V2ErrorResult(result, v_iteration))
                      /\ v_ctx' = ctx
                      /\ v_pc' = "done"
                 ELSE /\ v_ctx' = V2SetChallenge(ctx, V2Output(result))
                      /\ v_pc' = "target"
                      /\ UNCHANGED v_results
    /\ UNCHANGED <<v_agent, v_input, v_iteration>>
    /\ UNCHANGED NotV2

\* Step 2: Poimandres generates.
V2Target ==
    /\ v_pc = "target"
    /\ \E llm \in TargetLLMs :
          LET result == SDNACExecute(v_agent.poimandres, v_ctx, BaseWorld, llm)
          IN  /\ v_log' = Append(v_log, V2Entry("target", v_iteration, v_ctx, result))
              /\ IF V2StageReturns(result)
                 THEN /\ v_results' = Append(v_results, V2ErrorResult(result, v_iteration))
                      /\ v_pc' = "done"
                      /\ UNCHANGED v_ctx
                 ELSE /\ v_ctx' = V2SetDeliverable(v_ctx, V2Output(result))
                      /\ v_pc' = "gate"
                      /\ UNCHANGED v_results
    /\ UNCHANGED <<v_agent, v_input, v_iteration>>
    /\ UNCHANGED NotV2

\* Step 3: Ariadne gates; a gate that did not pass restarts the loop.
V2Gate ==
    /\ v_pc = "gate"
    /\ \E llm \in GateLLMs :
          LET result == SDNACExecute(v_agent.ariadne_gate, v_ctx, BaseWorld, llm)
          IN  /\ v_log' = Append(v_log, V2Entry("gate", v_iteration, v_ctx, result))
              /\ IF V2StageReturns(result)
                 THEN /\ v_results' = Append(v_results, V2ErrorResult(result, v_iteration))
                      /\ v_pc' = "done"
                      /\ UNCHANGED <<v_ctx, v_iteration>>
                 ELSE IF ~V2GatePassed(V2Output(result))
                 THEN /\ v_ctx' = V2GateFeedback(v_ctx, V2Output(result))
                      /\ v_iteration' = v_iteration + 1
                      /\ v_pc' = "challenge"
                      /\ UNCHANGED v_results
                 ELSE /\ v_pc' = "ovp"
                      /\ UNCHANGED <<v_ctx, v_iteration, v_results>>
    /\ UNCHANGED <<v_agent, v_input>>
    /\ UNCHANGED NotV2

\* Step 4: OVP approves, or its feedback goes into the next iteration.
V2Ovp ==
    /\ v_pc = "ovp"
    /\ \E llm \in OvpLLMs :
          LET result == SDNACExecute(v_agent.ovp, v_ctx, BaseWorld, llm)
          IN  /\ v_log' = Append(v_log, V2Entry("ovp", v_iteration, v_ctx, result))
              /\ IF V2StageReturns(result)
                 THEN /\ v_results' = Append(v_results, V2ErrorResult(result, v_iteration))
                      /\ v_pc' = "done"
                      /\ UNCHANGED <<v_ctx, v_iteration>>
                 ELSE IF V2Approved(V2Output(result))
                 THEN /\ v_results' = Append(v_results, V2SuccessResult(v_ctx, v_iteration))
                      /\ v_pc' = "done"
                      /\ UNCHANGED <<v_ctx, v_iteration>>
                 ELSE /\ v_ctx' = V2OvpFeedback(v_ctx, V2Output(result))
                      /\ v_iteration' = v_iteration + 1
                      /\ v_pc' = "challenge"
                      /\ UNCHANGED v_results
    /\ UNCHANGED <<v_agent, v_input>>
    /\ UNCHANGED NotV2

\* The loop is exhausted: return MAX_ITERATIONS.
V2Exhausted ==
    /\ v_pc = "challenge"
    /\ v_iteration >= v_agent.max_iterations
    /\ v_results' = Append(v_results, V2ExhaustedResult(v_agent, v_ctx))
    /\ v_pc' = "done"
    /\ UNCHANGED <<v_agent, v_input, v_iteration, v_ctx, v_log>>
    /\ UNCHANGED NotV2

V2Next == V2Call \/ V2Challenge \/ V2Target \/ V2Gate \/ V2Ovp \/ V2Exhausted

\* After construction: a DuoAgentV2 is under execution; nothing else is.
V2Start ==
    V2Init /\ ThreadIdle /\ UnitIdle /\ FlowIdle /\ DuoIdle /\ GraphIdle /\ AuxIdle
    /\ running = "v2"

SpecDuoV2 == V2Start /\ [][V2Next]_vars

(***************************************************************************)
(* Claims about SDNAFlow.                                                  *)
(***************************************************************************)
\* The Unit executions of call number n of the Flow, in order.
RunLog(n) == SelectSeq(f_log, LAMBDA e : e.run = n)

\* C7: a Flow halts at the first Unit whose outcome is not Success: it returns
\* that outcome with resume path [index of that Unit], the Units before it all
\* succeeded, in declared order, and no Unit after it is invoked.
C7_FlowHaltsAtFirstNonSuccess ==
    LET log == RunLog(f_run)
        n == Len(log)
    IN  /\ \A j \in 1..n : log[j].unit = j - 1
        /\ \A j \in 1..(n - 1) : log[j].result.status = "success"
        /\ (n > 0 /\ log[n].result.status # "success")
           => /\ f_done
              /\ Len(f_results) = f_run
              /\ f_result = [log[n].result EXCEPT !.resume_path = <<n - 1>>]
        /\ (f_done /\ f_result.status # "success")
           => (n > 0 /\ log[n].result.status = f_result.status)

\* A Flow of three Units whose second Unit was blocked: the third never ran.
C7_Witness ==
    /\ f_done
    /\ Len(f_flow) = 3
    /\ Len(f_log) = 2
    /\ f_result.status = "blocked"
    /\ f_result.resume_path = <<1>>

\* C8: after a Flow halts with AwaitingInput at unit i, the resumed run does not
\* invoke units 0..i-1 again and continues unit i's Thread from its resume index.
C8_FlowResumesAtHalt ==
    \A j \in 1..Len(f_log) :
        f_log[j].run >= 2
        => LET prev == RunLog(f_log[j].run - 1)
               halt == prev[Len(prev)]
           IN  /\ f_log[j].unit >= halt.unit
               /\ (f_log[j].unit = halt.unit
                   => f_log[j].start_at = halt.ariadne.resume_at)

(***************************************************************************)
(* Claims about DUOAgent.                                                  *)
(***************************************************************************)
\* C9: if the observer's outcome in iteration n is Error, Blocked or
\* AwaitingInput, the loop ends at once with that status and iteration count n,
\* and nothing is invoked afterwards.
C9_ObserverNonSuccessEndsLoop ==
    \A j \in 1..Len(d_log) :
        (d_log[j].who = "ovp" /\ d_log[j].status # "success")
        => /\ j = Len(d_log)
           /\ d_done
           /\ d_result.status = d_log[j].status
           /\ d_result.iterations = d_log[j].iteration

\* C10: if the target's outcome in iteration n is Blocked, Error or
\* AwaitingInput, the loop returns the same-named status with iteration count n,
\* the observer is not invoked in iteration n, and nothing runs afterwards.
C10_TargetNonSuccessEndsLoop ==
    \A j \in 1..Len(d_log) :
        (d_log[j].who = "target" /\ d_log[j].status # "success")
        => /\ j = Len(d_log)
           /\ d_done
           /\ d_result.status = d_log[j].status
           /\ d_result.iterations = d_log[j].iteration
           /\ \A i \in 1..Len(d_log) :
                 d_log[i].who = "ovp" => d_log[i].iteration < d_log[j].iteration

\* The target was blocked in the second iteration, after one observer run.
C10_Witness ==
    /\ d_done
    /\ Len(d_log) = 3
    /\ d_log[3].who = "target"
    /\ d_log[3].status = "blocked"
    /\ d_result.status = "blocked"
    /\ d_result.iterations = 2

\* The executions of one Unit (target or ovp) recorded so far, in order.
DuoRuns(who) == SelectSeq(d_log, LAMBDA e : e.who = who)

\* Whether the approval key held a truthy value after the Unit execution e.
DuoApprovedAfter(e) == CtxGet(e.context, d_agent.approval_key, "") \notin {"", "False", "None"}

\* C11: with max >= 1, when the target and then the observer succeed and the
\* approval key is truthy after that first observer run, the loop returns
\* Success with iteration count 1 after exactly one target and one observer run.
C11_ApprovedFirstIteration ==
    (/\ d_agent.max_iterations >= 1
     /\ Len(d_log) >= 2
     /\ d_log[1].who = "target" /\ d_log[1].status = "success"
     /\ d_log[2].who = "ovp" /\ d_log[2].status = "success"
     /\ DuoApprovedAfter(d_log[2]))
    => /\ d_done
       /\ d_result.status = "success"
       /\ d_result.iterations = 1
       /\ Len(DuoRuns("target")) = 1
       /\ Len(DuoRuns("ovp")) = 1

\* The observer approved in the first iteration and the loop has returned.
C11_Witness ==
    /\ d_done
    /\ d_agent.max_iterations = 2
    /\ Len(d_log) = 2
    /\ d_log[2].status = "success"
    /\ DuoApprovedAfter(d_log[2])
    /\ d_result.status = "success"

\* C12: when every target and observer run succeeds and the approval key is
\* never truthy, the loop returns MaxIterationsExceeded with iteration count
\* exactly max, after exactly max target runs and max observer runs.
C12_NeverApprovedExhausts ==
    (/\ d_done
     /\ \A j \in 1..Len(d_log) : d_log[j].status = "success"
     /\ \A j \in 1..Len(d_log) : d_log[j].who = "ovp" => ~DuoApprovedAfter(d_log[j]))
    => /\ d_result.status = "max_iterations"
       /\ d_result.iterations = d_agent.max_iterations
       /\ Len(DuoRuns("target")) = d_agent.max_iterations
       /\ Len(DuoRuns("ovp")) = d_agent.max_iterations

\* Two iterations, all four runs successful, none approved.
C12_Witness ==
    /\ d_done
    /\ d_agent.max_iterations = 2
    /\ Len(d_log) = 4
    /\ \A j \in 1..4 : d_log[j].status = "success"
    /\ \A j \in {2, 4} : ~DuoApprovedAfter(d_log[j])
    /\ d_result.status = "max_iterations"

\* DUOAgent.execute under a scheduler that keeps running the coroutine.
SpecDuoFair == SpecDuo /\ WF_vars(DuoNext)

\* The counting part of C13, in every state.
DuoCountsBounded ==
    /\ Len(DuoRuns("target")) <= d_agent.max_iterations
    /\ Len(DuoRuns("ovp")) <= Len(DuoRuns("target"))
    /\ d_done => d_result.iterations = Len(DuoRuns("target"))

\* C13: for every sequence of target and observer outcomes, execute terminates,
\* the target runs at most max times, the observer never more often than the
\* target, and the reported iteration count is the number of target runs.
C13_LoopTerminatesWithinMax == []DuoCountsBounded /\ <>d_done

\* A run cut short by the target: three Unit runs, two of them the target's.
C13_Witness ==
    /\ d_done
    /\ Len(DuoRuns("target")) = 2
    /\ Len(DuoRuns("ovp")) = 1
    /\ d_result.iterations = 2

(***************************************************************************)
(* Claims about DuoAgentV2.                                                *)
(***************************************************************************)
\* The Unit executions of iteration n (counted from 1), in order.
V2IterLog(n) == SelectSeq(v_log, LAMBDA e : e.iteration = n)

\* The iterations started so far, and whether iteration n is over.
V2Started == IF v_log = <<>> THEN 0 ELSE v_log[Len(v_log)].iteration
V2IterOver(n) == n < V2Started \/ (n = V2Started /\ (v_done \/ v_pc = "challenge"))

\* The content of a tag in an output text, read without the loop's helpers.
V2TagOf(output, tag) == extract_tags(output, {tag})[tag]
V2TagIsTrue(output, tag) ==
    V2TagOf(output, tag) # None /\ Lower(V2TagOf(output, tag)) = "true"

V2Stages(n) == [k \in 1..Len(V2IterLog(n)) |-> V2IterLog(n)[k].who]

\* C14: if any of the four Units returns Blocked or AwaitingInput, the loop
\* ends at once with the corresponding status: that Unit execution is the
\* last one and the result carries its status.
C14_V2NonSuccessEndsLoop ==
    \A j \in 1..Len(v_log) :
        v_log[j].status \in {"blocked", "awaiting_input"}
        => /\ j = Len(v_log)
           /\ v_done
           /\ v_result.status = v_log[j].status

\* The stages in a log run in the order challenge, target, gate, observer.
V2InOrder(log) ==
    \E k \in 0..4 :
        [i \in 1..Len(log) |-> log[i].who] = SubSeq(<<"challenge", "target", "gate", "ovp">>, 1, k)

\* An iteration, once over, ran challenge, target and gate once each, and the
\* observer exactly when its gate-passed tag was "true".
V2IterComplete(log) ==
    /\ Len(log) >= 3
    /\ Len(log) = 4 <=> V2TagIsTrue(log[3].output, "gate-passed")

\* After a gate that did not pass, the next iteration starts at the challenge
\* stage with the gate's feedback in the context.
V2GateFeedbackSeeded(log, next) ==
    (Len(log) = 3 /\ log[3].status # "error" /\ next # <<>>)
    => /\ next[1].who = "challenge"
       /\ next[1].input["attempt_feedback"] =
             Or(V2TagOf(log[3].output, "gate-feedback"), "Gate rejected, try again")

V2HasError(log) == \E k \in 1..Len(log) : log[k].status = "error"

\* C15 as stated: in every iteration challenge, target and gate are each
\* invoked once in that order, the observer iff the gate-passed tag is "true",
\* and a gate failure restarts at the challenge with the gate's feedback.
C15_V2EveryIterationRunsThreeStages ==
    \A n \in 1..V2Started :
        LET log == V2IterLog(n)
        IN  /\ V2InOrder(log)
            /\ V2IterOver(n) => V2IterComplete(log)
            /\ V2GateFeedbackSeeded(log, V2IterLog(n + 1))

\* C15 amended: the same, in every iteration in which no stage returns Error;
\* an Error ends the iteration, and the loop, at the stage that returned it.
C15_V2StageOrder ==
    \A n \in 1..V2Started :
        LET log == V2IterLog(n)
        IN  /\ V2InOrder(log)
            /\ (V2IterOver(n) /\ ~V2HasError(log)) => V2IterComplete(log)
            /\ V2HasError(log)
               => /\ v_done /\ n = V2Started
                  /\ log[Len(log)].status = "error"
                  /\ v_result.status = "error"
            /\ V2GateFeedbackSeeded(log, V2IterLog(n + 1))

\* The gate failed in iteration 1 and passed in iteration 2: challenge and
\* target ran twice, the observer once.
C15_Witness ==
    /\ V2Stages(1) = <<"challenge", "target", "gate">>
    /\ V2Stages(2) = <<"challenge", "target", "gate", "ovp">>
    /\ V2TagOf(V2IterLog(1)[3].output, "gate-feedback") = "tighten"
    /\ V2TagIsTrue(V2IterLog(2)[3].output, "gate-passed")

\* C16: the loop returns Success only in an iteration whose gate passed and
\* whose observer's approved tag equals "true", and the final artifact is the
\* deliverable obtained from the target's output in that same iteration.
C16_V2SuccessNeedsGateAndApproval ==
    (v_done /\ v_result.status = "success")
    => LET n == v_result.iterations
           log == V2IterLog(n)
       IN  /\ n = V2Started
           /\ V2Stages(n) = <<"challenge", "target", "gate", "ovp">>
           /\ V2TagIsTrue(log[3].output, "gate-passed")
           /\ V2TagIsTrue(log[4].output, "ovp-approved")
           /\ v_result.final_deliverable =
                 Or(V2TagOf(log[2].output, "deliverable"), log[2].output)

\* Success in the second iteration, with the tagged deliverable as the artifact.
C16_Witness ==
    /\ v_done
    /\ v_result.status = "success"
    /\ v_result.iterations = 2
    /\ v_result.final_deliverable = "the code"

\* C17: if no stage returns Error and no iteration ends with observer
\* approval, the loop returns MaxIterationsExceeded with iteration count max
\* after exactly max iterations, however each iteration ended.
C17_V2NeverApprovedExhausts ==
    (/\ v_done
     /\ \A j \in 1..Len(v_log) : v_log[j].status # "error"
     /\ \A j \in 1..Len(v_log) :
           v_log[j].who = "ovp" => ~V2TagIsTrue(v_log[j].output, "ovp-approved"))
    => /\ v_result.status = "max_iterations"
       /\ v_result.iterations = v_agent.max_iterations
       /\ V2Started = v_agent.max_iterations
       /\ \A n \in 1..v_agent.max_iterations : Len(V2IterLog(n)) >= 3

\* Iteration 1 ended by gate rejection, iteration 2 by observer rejection.
C17_Witness ==
    /\ v_done
    /\ v_agent.max_iterations = 2
    /\ V2Stages(1) = <<"challenge", "target", "gate">>
    /\ V2Stages(2) = <<"challenge", "target", "gate", "ovp">>
    /\ v_result.status = "max_iterations"

\* C18: every outcome returned by the execute of a Thread, Unit, Flow, 2-stage
\* loop or 4-stage loop, whatever its tag, carries the accumulated context:
\* every key of the caller's initial context is present in it.
C18_OutcomeCarriesContext ==
    /\ \A k \in 1..Len(th_results) : DOMAIN th_input \subseteq DOMAIN th_results[k].context
    /\ \A k \in 1..Len(u_results) : DOMAIN u_input \subseteq DOMAIN u_results[k].context
    /\ f_done => DOMAIN f_context \subseteq DOMAIN f_result.context
    /\ \A k \in 1..Len(d_results) : DOMAIN d_input \subseteq DOMAIN d_results[k].context
    /\ \A k \in 1..Len(v_results) : DOMAIN v_input \subseteq DOMAIN v_results[k].context

(***************************************************************************)
(* Claims about failures.                                                  *)
(***************************************************************************)
\* C19: when an element of a Thread raises, execute returns Error with the
\* exception's message and the context as accumulated before the failing
\* element, with none of that element's effects, and no later element is applied.
C19_ErrorKeepsContextBefore ==
    (FirstCallDone /\ th_result.status = "error")
    => LET k == th_i
           before == ApplyRange(elements, th_start, k, th_input, world)
       IN  /\ k < Len(elements)
           /\ ~before.raised
           /\ ElemExecute(elements[k + 1], before.ctx, world).raised
           /\ th_result.error = ElemExecute(elements[k + 1], before.ctx, world).error
           /\ th_result.context = before.ctx
           /\ th_applied = [j \in 1..(k - th_start) |-> th_start + j - 1]

\* The third element failed after the first two had written to the context.
C19_Witness ==
    /\ FirstCallDone
    /\ th_start = 0
    /\ th_result.status = "error"
    /\ th_i = 2
    /\ Len(elements) = 3
    /\ th_applied = <<0, 1>>
    /\ DOMAIN th_result.context = DOMAIN th_input \cup {"first", "woven"}

\* C20: no failure of a context element, of goal templating or of the model
\* call makes execute raise: the Thread, the Generation Step and the Unit
\* return tagged outcomes, and each such failure ends in an outcome tagged
\* Error that carries the failure's message.
C20_NoExceptionEscapes ==
    /\ u_pc # "raised"
    /\ \A k \in 1..Len(u_ars) : u_ars[k].status \in {"success", "awaiting_input", "error"}
    /\ \A k \in 1..Len(u_results) :
          /\ u_results[k].status \in {"success", "awaiting_input", "blocked", "error"}
          /\ u_ars[k].status = "error"
             => (u_results[k].status = "error" /\ u_results[k].error = u_ars[k].error)
    /\ \A k \in 1..Len(u_steps) :
          (u_steps[k].raised \/ u_steps[k].status = "error")
          => /\ u_done
             /\ u_result.status = "error"
             /\ u_result.error = u_steps[k].error

\* Goal templating failed inside agent_step and the Unit returned Error.
C20_Witness ==
    /\ u_done
    /\ Len(u_steps) = 1
    /\ u_steps[1].raised
    /\ u_result.status = "error"
    /\ u_result.error = "Missing required variable in goal template"


(***************************************************************************)
(* The Generation Step inside a Unit (SpecUnit).                           *)
(***************************************************************************)
\* The Generation Step of the current call, once it has run.
u_step == u_steps[Len(u_steps)]

\* C21: SDNAC.execute maps the Generation Step's result: blocked gives Blocked
\* with the Thread's resulting context; failure gives Error with the failure's
\* message and the Thread's resulting context; success gives Success with the
\* Thread's resulting context overlaid by the output mapping, the output's
\* entries winning where both have the key.
C21_UnitMapsGenerationResult ==
    (u_done /\ Len(u_steps) = 1)
    => LET p == u_step.poimandres
           thread == u_ar.context
       IN  /\ p.blocked
              => (u_result.status = "blocked" /\ u_result.context = thread)
           /\ (~p.blocked /\ ~p.success)
              => /\ u_result.status = "error"
                 /\ u_result.error = p.error
                 /\ u_result.context = thread
           /\ (~p.blocked /\ p.success)
              => /\ u_result.status = "success"
                 /\ DOMAIN u_result.context = DOMAIN thread \cup DOMAIN p.output
                 /\ \A k \in DOMAIN u_result.context :
                       u_result.context[k] =
                           IF k \in DOMAIN p.output THEN p.output[k] ELSE thread[k]

\* A Unit called with a context that already held a text entry generated, and
\* the generated text replaced the entry while the Thread's other entries stayed.
C21_Witness ==
    /\ u_done
    /\ Len(u_steps) = 1
    /\ u_step.poimandres.success
    /\ "text" \in DOMAIN u_ar.context
    /\ u_ar.context["text"] = "stale text"
    /\ u_result.status = "success"
    /\ u_result.context["text"] = "draft"
    /\ "first" \in DOMAIN u_result.context

\* The final texts of the model calls that hold the blocked-report block.
TextsWithBlock == {BlockedText, EmbeddedBlockedText}

\* Whether the model was called and the call came back without an exception.
CallCompleted(step) == step.llm.sdk /\ ~step.raised /\ ~step.llm.fails

C23_OneModelCallNoRetry ==
    /\ Len(u_steps) <= 1
    /\ \A k \in 1..Len(u_steps) :
          LET step == u_steps[k]
          IN  /\ step.queries <= 1
              /\ ~step.llm.sdk
                 => /\ step.queries = 0
                    /\ ~step.poimandres.success
                    /\ ~step.poimandres.blocked
                    /\ step.poimandres.error = "claude-agent-sdk not installed"
              /\ (step.llm.sdk /\ ~step.raised /\ step.llm.fails)
                 => /\ step.queries = 1
                    /\ ~step.poimandres.success
                    /\ ~step.poimandres.blocked
                    /\ step.poimandres.error = "model call failed"

\* The model call raised: one call was made and the Unit returned its message.
C23_Witness ==
    /\ u_done
    /\ Len(u_steps) = 1
    /\ u_step.llm.fails
    /\ u_step.queries = 1
    /\ u_result.status = "error"
    /\ u_result.error = "model call failed"


(***************************************************************************)
(* Any one of the four components under execution.                         *)
(***************************************************************************)
ExecuteStart == ThreadStart \/ UnitStart \/ FlowStart \/ DuoStart

ExecuteNext ==
    \/ (running = "thread" /\ ThreadNext)
    \/ (running = "unit" /\ UnitNext)
    \/ (running = "flow" /\ FlowNext)
    \/ (running = "duo" /\ DuoNext)

SpecExecute == ExecuteStart /\ [][ExecuteNext]_vars

\* The context the caller passed to the call in progress (or the last one): the
\* input of the first call, or the suspended result's context with the answer.
Passed(input, results, answers) ==
    IF answers = <<>> THEN input
    ELSE LET n == Len(answers)
         IN  CtxSet(results[n].context, results[n].pending_input_key, answers[n])

\* C24: during and after any execute of a Thread, Unit, Flow or 2-stage loop,
\* whatever its outcome, the dict the caller passed in holds exactly the entries
\* it held at the call.
C24_CallerContextUntouched ==
    /\ running = "thread" => th_context = Passed(th_input, th_results, th_answers)
    /\ running = "unit" => u_context = Passed(u_input, u_results, u_answers)
    /\ running = "flow" => f_context = Passed(f_input, f_results, f_answers)
    /\ running = "duo" => d_context = d_input

\* A 2-stage loop was called with a non-empty context and came back with a
\* different context in its result.
C24_Witness ==
    /\ running = "duo"
    /\ d_done
    /\ d_input # EmptyCtx
    /\ d_result.context # d_input
    /\ d_context = d_input


(***************************************************************************)
(* What the 2-stage loop carries from the target to the observer and from  *)
(* one iteration to the next (SpecDuo).                                    *)
(***************************************************************************)
\* C25: in every iteration in which the target succeeds, after the observer has
\* run the context's target_output entry equals the text the target generated
\* in that iteration, whatever the observer's own generation put in text.
C25_TargetOutputSurvivesObserver ==
    \A k \in 1..Len(d_log) :
       d_log[k].who = "ovp"
       => LET target == d_log[k - 1]
          IN  /\ target.who = "target"
              /\ target.iteration = d_log[k].iteration
              /\ target.status = "success"
              /\ "target_output" \in DOMAIN d_log[k].context
              /\ d_log[k].context["target_output"] = target.context["text"]
              /\ k = Len(d_log)
                 => /\ "target_output" \in DOMAIN d_ctx
                    /\ d_ctx["target_output"] = target.context["text"]
                    /\ d_done => d_result.context["target_output"] = target.context["text"]

\* The observer generated a text of its own, different from the target's, and
\* target_output still holds the target's text.
C25_Witness ==
    /\ d_done
    /\ Len(d_log) = 2
    /\ d_log[2].who = "ovp"
    /\ d_log[2].status = "success"
    /\ d_log[1].context["text"] = "draft"
    /\ d_result.context["text"] = "final draft"
    /\ d_result.context["target_output"] = "draft"

\* C26: when the observer has not approved in iteration n < max, the context
\* passed to the target in iteration n + 1 holds at the feedback key the value
\* that was there after the observer's run in iteration n.
C26_FeedbackReachesNextTarget ==
    \A k \in 1..(Len(d_log) - 1) :
       (d_log[k].who = "ovp" /\ d_log[k + 1].who = "target")
       => LET after == d_log[k].context
              given == d_log[k + 1].input
              key == d_agent.feedback_key
          IN  /\ d_log[k + 1].iteration = d_log[k].iteration + 1
              /\ key \in DOMAIN after <=> key \in DOMAIN given
              /\ key \in DOMAIN after => given[key] = after[key]

\* The observer left feedback and did not approve; the target of the second
\* iteration was given that feedback.
C26_Witness ==
    /\ Len(d_log) >= 3
    /\ d_log[2].who = "ovp"
    /\ d_log[2].context["ovp_feedback"] = "needs work"
    /\ d_log[3].who = "target"
    /\ d_log[3].iteration = 2
    /\ d_log[3].input["ovp_feedback"] = "needs work"


\* C27: when every Unit of a Flow succeeds, the Units have run exactly once each
\* in declared order, the first on a copy of the caller's context and each
\* other on the context its predecessor produced, and the Flow returns Success
\* with the last Unit's context and no resume path.
C27_FlowThreadsContextForward ==
    LET log == RunLog(f_run)
        n == Len(log)
    IN  (f_done /\ \A j \in 1..n : log[j].result.status = "success")
        => /\ n = Len(f_flow)
           /\ \A j \in 1..n :
                 /\ log[j].unit = j - 1
                 /\ log[j].input = IF j = 1 THEN f_context ELSE log[j - 1].result.context
           /\ f_result.status = "success"
           /\ f_result.context = IF n = 0 THEN f_context ELSE log[n].result.context
           /\ f_result.resume_path = NoPath
           /\ f_result.error = None

\* A Flow of three Units, all of which succeeded.
C27_Witness ==
    /\ f_done
    /\ Len(f_flow) = 3
    /\ Len(RunLog(f_run)) = 3
    /\ f_result.status = "success"
    /\ f_context # EmptyCtx
    /\ f_log[3].input = f_log[2].result.context
    /\ f_log[2].input # f_log[1].input


(***************************************************************************)
(* The graph of AriadneChain.to_graph under invocation, one node per step. *)
(* The caller invokes it on initial_state(context); after a suspension the *)
(* caller puts the human's answer in the context and invokes it again.     *)
(***************************************************************************)
g_result == g_results[Len(g_results)]
g_done == g_pc \in {"end", "raised"}

Ended(state, edge) == [raised |-> FALSE, error |-> None, state |-> state, edge |-> edge]
Raised(error, state) == [raised |-> TRUE, error |-> error, state |-> state, edge |-> None]

ThreadGraphInit ==
    /\ g_graph \in {[kind |-> "thread", elements |-> t] : t \in Threads}
    /\ g_world \in Worlds
    /\ g_input \in InitialContexts
    /\ g_pc = "idle"
    /\ g_i = 0
    /\ g_state = initial_state(EmptyCtx)
    /\ g_results = <<>>
    /\ g_log = <<>>
    /\ g_answers = <<>>

\* graph.ainvoke(initial_state(context)): START
ThreadGraphInvoke ==
    /\ g_pc = "idle"
    /\ g_state' = initial_state(g_input)
    /\ g_i' = 0
    /\ g_pc' = "node"
    /\ UNCHANGED <<g_graph, g_world, g_input, g_results, g_log, g_answers>>
    /\ UNCHANGED NotGraph

\* The node at g_i runs (passthrough when the Thread is empty) and the edge
\* after it is followed.
ThreadGraphNode ==
    /\ g_pc = "node"
    /\ g_log' = Append(g_log, [call |-> Len(g_answers) + 1, node |-> g_i])
    /\ IF g_graph.elements = <<>>
       THEN /\ g_state' = passthrough(g_state)
            /\ g_results' = Append(g_results, Ended(g_state', "end"))
            /\ g_pc' = "end"
            /\ UNCHANGED g_i
       ELSE LET n == ThreadNode(g_graph.elements, g_i, g_state, g_world)
                next == ThreadEdge(g_graph.elements, g_i, n.state)
            IN  IF n.raised
                THEN /\ g_results' = Append(g_results, Raised(n.error, g_state))
                     /\ g_pc' = "raised"
                     /\ UNCHANGED <<g_i, g_state>>
                ELSE /\ g_state' = n.state
                     /\ IF next >= Len(g_graph.elements)
                        THEN /\ g_results' =
                                   Append(g_results,
                                          Ended(n.state,
                                                IF g_graph.elements[g_i + 1].kind = "human"
                                                THEN check_human(n.state) ELSE "end"))
                             /\ g_pc' = "end"
                             /\ UNCHANGED g_i
                        ELSE /\ g_i' = next
                             /\ UNCHANGED <<g_results, g_pc>>
    /\ UNCHANGED <<g_graph, g_world, g_input, g_answers>>
    /\ UNCHANGED NotGraph

\* The caller answers the gate and invokes the graph again.
ThreadGraphResume ==
    /\ g_pc = "end"
    /\ g_state.awaiting_input
    /\ Len(g_answers) < MaxResumes
    /\ \E answer \in Answers :
          /\ g_state' = initial_state(CtxSet(g_state.context, g_state.pending_input_key,
                                             answer))
          /\ g_answers' = Append(g_answers, answer)
    /\ g_i' = 0
    /\ g_pc' = "node"
    /\ UNCHANGED <<g_graph, g_world, g_input, g_results, g_log>>
    /\ UNCHANGED NotGraph

ThreadGraphNext == ThreadGraphInvoke \/ ThreadGraphNode \/ ThreadGraphResume

ThreadGraphStart ==
    ThreadGraphInit /\ ThreadIdle /\ UnitIdle /\ FlowIdle /\ DuoIdle /\ V2Idle
    /\ AuxIdle /\ running = "thread_graph"

SpecThreadGraph == ThreadGraphStart /\ [][ThreadGraphNext]_vars

\* The outcome a finished invocation of a Thread's graph stands for, read as
\* check_ariadne reads it: suspended, failed, or else succeeded.
ThreadGraphStatus(r) ==
    IF r.raised THEN "raised"
    ELSE IF r.state.awaiting_input THEN "awaiting_input"
    ELSE IF r.state.status = "error" THEN "error"
    ELSE "success"

\* A finished invocation of the graph and a sequential execute agree.
SameOutcome(r, seq) ==
    /\ ThreadGraphStatus(r) = seq.status
    /\ r.state.context = seq.context
    /\ seq.status = "awaiting_input"
       => /\ r.state.pending_prompt = seq.pending_prompt
          /\ r.state.pending_input_key = seq.pending_input_key
          /\ r.state.resume_at = seq.resume_at

\* C28: for every Thread and input context, the Thread's compiled graph gives
\* the outcome of the sequential execute: the same status, the same context,
\* on suspension the same prompt, result key and resume index, and once the
\* human's answer is supplied the elements after the gate are executed.
C28_ThreadGraphMatchesExecute ==
    LET elems == g_graph.elements
        first == AriadneExecute(elems, g_input, 0, g_world)
    IN  /\ Len(g_results) >= 1 => SameOutcome(g_results[1], first)
        /\ (Len(g_results) >= 2 /\ first.status = "awaiting_input")
           => SameOutcome(g_results[2],
                          AriadneExecute(elems,
                                         CtxSet(first.context, first.pending_input_key,
                                                g_answers[1]),
                                         first.resume_at, g_world))

(***************************************************************************)
(* The graph of DUOAgent.to_graph under invocation: init, the target's     *)
(* subgraph with check_target, the observer's subgraph with check_ovp.     *)
(***************************************************************************)
DuoGraphInit ==
    /\ g_graph \in {[kind |-> "duo", agent |-> a] : a \in DuoAgents}
    /\ g_world = BaseWorld
    /\ g_input \in DuoContexts
    /\ g_pc = "idle"
    /\ g_i = 0
    /\ g_state = initial_state(EmptyCtx)
    /\ g_results = <<>>
    /\ g_log = <<>>
    /\ g_answers = <<>>

\* graph.ainvoke(initial_state(context)): START -> init
DuoGraphInvoke ==
    /\ g_pc = "idle"
    /\ g_state' = initial_state(g_input)
    /\ g_pc' = "init"
    /\ UNCHANGED <<g_graph, g_world, g_input, g_i, g_results, g_log, g_answers>>
    /\ UNCHANGED NotGraph

\* the init node, then the edge to target
DuoGraphIteration ==
    /\ g_pc = "init"
    /\ g_state' = init_iteration(g_state)
    /\ g_pc' = "target"
    /\ UNCHANGED <<g_graph, g_world, g_input, g_i, g_results, g_log, g_answers>>
    /\ UNCHANGED NotGraph

\* add_conditional_edges: the routing function after each Unit subgraph.
DuoEdge(who, agent, state) ==
    IF who = "target" THEN check_target(state) ELSE check_ovp(agent, state)

\* add_conditional_edges: the node each route leads to; a route that is not
\* in the mapping leads to END.
DuoOnward(who) ==
    IF who = "target" THEN [continue |-> "ovp"] ELSE [retry |-> "init"]

\* One Unit subgraph runs and the conditional edge after it is followed.
DuoGraphUnit(who, unit) ==
    /\ g_pc = who
    /\ \E w \in DuoWorlds, llm \in LLMs :
          LET u == UnitGraph(unit, g_state, w, llm)
              route == DuoEdge(who, g_graph.agent, u.state)
              onward == DuoOnward(who)
          IN  /\ g_log' = Append(g_log, [who |-> who, world |-> w, llm |-> llm,
                                         generated |-> u.generated,
                                         status |-> u.state.status])
              /\ IF u.raised
                 THEN /\ g_results' = Append(g_results, Raised(u.error, g_state))
                      /\ g_pc' = "raised"
                      /\ UNCHANGED g_state
                 ELSE /\ g_state' = u.state
                      /\ IF route \in DOMAIN onward
                         THEN /\ g_pc' = onward[route]
                              /\ UNCHANGED g_results
                         ELSE /\ g_results' = Append(g_results, Ended(u.state, route))
                              /\ g_pc' = "end"
    /\ UNCHANGED <<g_graph, g_world, g_input, g_i, g_answers>>
    /\ UNCHANGED NotGraph

\* the target node: {"continue": "ovp", "stop": END}
DuoGraphTarget ==
    DuoGraphUnit("target", g_graph.agent.target)

\* the ovp node: {"done": END, "max_iterations": END, "retry": "init"}
DuoGraphOvp ==
    DuoGraphUnit("ovp", g_graph.agent.ovp)

DuoGraphNext == DuoGraphInvoke \/ DuoGraphIteration \/ DuoGraphTarget \/ DuoGraphOvp

DuoGraphStart ==
    DuoGraphInit /\ ThreadIdle /\ UnitIdle /\ FlowIdle /\ DuoIdle /\ V2Idle
    /\ AuxIdle /\ running = "duo_graph"

SpecDuoGraph == DuoGraphStart /\ [][DuoGraphNext]_vars

\* The classification a finished invocation of the loop's graph stands for:
\* the edge done is Success, the edge max_iterations is MaxIterationsExceeded,
\* and the edge stop after the target is the target's status.
DuoGraphStatus(r) ==
    IF r.raised THEN "raised"
    ELSE IF r.edge = "done" THEN "success"
    ELSE IF r.edge = "max_iterations" THEN "max_iterations"
    ELSE r.state.status

\* The worlds and model calls the graph's Unit subgraphs of one kind met, in order.
GraphMet(who) ==
    LET runs == SelectSeq(g_log, LAMBDA e : e.who = who)
    IN  [k \in 1..Len(runs) |-> [world |-> runs[k].world, llm |-> runs[k].llm]]

\* C29: on the same sequence of target and observer outcomes, the compiled
\* graph of a 2-stage loop ends with the classification of the sequential
\* execute, after the same number of target and of observer invocations.
C29_DuoGraphMatchesExecute ==
    g_done
    => LET ts == GraphMet("target")
           os == GraphMet("ovp")
           seq == DuoExecute(g_graph.agent, g_input, ts, os)
       IN  /\ DuoGraphStatus(g_result) = seq.status
           /\ Len(ts) = seq.targets
           /\ Len(os) = seq.ovps


(***************************************************************************)
(* A Thread executed again by the same caller.                             *)
(***************************************************************************)
\* How many times the caller runs the same Thread on the same dict.
MaxRuns == 2

\* The caller calls thread.execute(context, start_at) once more with the
\* dict and the index of its first call; files, environment and the called
\* function are what they were.
ThreadAgain ==
    /\ th_pc = "done"
    /\ Len(th_results) < MaxRuns
    /\ th_ctx' = DictCopy(th_context)
    /\ th_i' = th_start
    /\ th_pc' = "loop"
    /\ UNCHANGED <<elements, world, th_input, th_context, th_start, th_results,
                   th_applied, th_answers>>
    /\ UNCHANGED NotThread

ThreadTwiceNext == ThreadCall \/ ThreadIter \/ ThreadReturn \/ ThreadAgain

ThreadTwiceStart ==
    ThreadInit /\ UnitIdle /\ FlowIdle /\ DuoIdle /\ V2Idle /\ GraphIdle
    /\ AuxIdle /\ running = "thread_twice"

SpecThreadTwice == ThreadTwiceStart /\ [][ThreadTwiceNext]_vars

TagTexts ==
    { ChallengeText, DeliverableText, GatePassText, GateFailText, OvpApproveText,
      OvpRejectText, BlockedText, EmbeddedBlockedText, UnclosedBlockedText,
      TwoDeliverablesText, MixedCaseText, MultiLineText, PlainText, "" }

TagNames ==
    { "deliverable", "gate-passed", "GATE-PASSED", "gate-feedback", "ovp-approved",
      "genuinely-blocked", "error" }

TagsInit ==
    /\ t_output \in TagTexts
    /\ t_tag_names \in SUBSET TagNames
    /\ t_pc = "idle"
    /\ t_result = EmptyCtx

\* result = extract_tags(output, tag_names)
TagsCall ==
    /\ t_pc = "idle"
    /\ t_result' = extract_tags(t_output, t_tag_names)
    /\ t_pc' = "done"
    /\ UNCHANGED <<t_output, t_tag_names>>
    /\ UNCHANGED <<th_vars, u_vars, f_vars, d_vars, v_vars, g_vars, b_vars, running>>

TagsNext == TagsCall

TagsStart ==
    TagsInit /\ ThreadIdle /\ UnitIdle /\ FlowIdle /\ DuoIdle /\ V2Idle /\ GraphIdle
    /\ BrainIdle /\ running = "tags"

SpecTags == TagsStart /\ [][TagsNext]_vars

\* The occurrences of a tag in a text, in order of appearance, the names
\* compared without regard to case.
Occurrences(output, tag) ==
    SelectSeq(Tokens(output), LAMBDA o : Lower(o.tag) = Lower(tag))

\* C31 as stated: the dict returned has exactly the requested names; a name
\* whose tag occurs maps to the content of the first occurrence as written
\* in the text, and a name whose tag does not occur maps to None.
C31_FirstOccurrenceAsWritten ==
    t_pc = "done" =>
        /\ DOMAIN t_result = t_tag_names
        /\ \A tag \in t_tag_names :
              LET occ == Occurrences(t_output, tag)
              IN  t_result[tag] = IF occ = <<>> THEN None ELSE occ[1].content

\* C31 amended: the dict returned has exactly the requested names; a name
\* whose tag occurs (in any letter case, its content possibly spanning
\* lines) maps to the content of the first occurrence with leading and
\* trailing whitespace removed, whatever later occurrences hold, and a name
\* whose tag does not occur maps to None.
C31_FirstOccurrenceStripped ==
    t_pc = "done" =>
        /\ DOMAIN t_result = t_tag_names
        /\ \A tag \in t_tag_names :
              LET occ == Occurrences(t_output, tag)
              IN  t_result[tag] = IF occ = <<>> THEN None ELSE Strip(occ[1].content)

\* Witness for C31: a text with two occurrences of one tag, written in
\* different letter case and with different contents, was searched for that
\* tag and for a tag that does not occur in it.
C31_Witness ==
    /\ t_pc = "done"
    /\ t_output = MixedCaseText
    /\ t_tag_names = {"GATE-PASSED", "error"}
    /\ Len(Occurrences(t_output, "GATE-PASSED")) = 2
    /\ t_result["GATE-PASSED"] = "true"
    /\ t_result["error"] = None


\* The element the last loop iteration of the Thread worked on.
th_last == IF th_applied = <<>> THEN NoIndex ELSE th_applied[Len(th_applied)]

\* C32: a knowledge-synthesis element whose brain directory can be loaded is
\* passed with context[key] set to the synthesized instructions and
\* context[key + "_neurons"] set to the neurons used; a Thread ends in Error
\* at such an element only when retrieval itself fails.
C32_BrainElementInjectsKnowledge ==
    /\ (/\ th_done
        /\ th_result.status = "error"
        /\ th_i < Len(elements)
        /\ elements[th_i + 1].kind = "brain")
           => ~world.brain_dir
    /\ (/\ th_pc = "loop"
        /\ th_last # NoIndex
        /\ th_i = th_last + 1
        /\ elements[th_last + 1].kind = "brain")
           => LET key == elements[th_last + 1].inject_as
              IN  /\ key \in DOMAIN th_ctx
                  /\ (key \o "_neurons") \in DOMAIN th_ctx


\* C33: a Generation Step whose goal template names a variable that the
\* merged bindings lack ends in Error with the message of the missing
\* variable, and neither the model nor knowledge retrieval was called in
\* that step.
C33_MissingVariableFailsFast ==
    \A k \in 1..Len(u_steps) :
        LET step == u_steps[k]
        IN  (step.raised /\ step.error = "Missing required variable in goal template")
            => /\ ~step.poimandres.success
               /\ ~step.poimandres.blocked
               /\ step.poimandres.error = "Missing required variable in goal template"
               /\ step.queries = 0
               /\ step.retrievals = 0


\* The texts the stream of a model call delivered, in order of arrival.
EventTexts(events) ==
    LET with_text == SelectSeq(events, LAMBDA e : e.has_text)
    IN  [k \in 1..Len(with_text) |-> with_text[k].text]

\* C34: the final text of a Generation Step holds the text of every streamed
\* event: a blocked-report block delivered by any event makes the step
\* Blocked whatever arrives after it, and the text of a successful step that
\* received several texts is more than the last of them.
C34_FinalTextAccumulates ==
    \A k \in 1..Len(u_steps) :
        LET step == u_steps[k]
            texts == EventTexts(step.llm.events)
        IN  (step.llm.sdk /\ ~step.llm.fails /\ ~step.raised)
            => /\ (\E n \in 1..Len(texts) : parse_blocked_from_text(texts[n]))
                     => step.status = "blocked"
               /\ (/\ step.status = "success"
                   /\ Len(texts) >= 2
                   /\ \A n \in 1..Len(texts) : texts[n] # "")
                     => step.output["text"] # texts[Len(texts)]


(***************************************************************************)
(* The compiled graph of a Flow (SDNAFlow.to_graph): one node per Unit,    *)
(* each the Unit's own graph (its Thread's graph, check_ariadne, the       *)
(* poimandres node), and check_status on the edge after every Unit but the *)
(* last.  g_i is the index of the Unit node the invocation is in.          *)
(***************************************************************************)
\* A variant of check_status that stops on an error only.
check_status_OnlyError(state) == IF state.status = "error" THEN "stop" ELSE "continue"

\* check_status of SDNAFlow.to_graph
check_status(state) == IF state.status = "success" THEN "continue" ELSE "stop"

\* The edge that leaves Unit node i: check_status, or the plain edge to END
\* after the last Unit.
FlowEdge(flow, i, state) == IF i = Len(flow) - 1 THEN "end" ELSE check_status(state)

FlowGraphInit ==
    /\ g_graph \in {[kind |-> "flow", flow |-> f] : f \in Flows}
    /\ g_world \in FlowWorlds
    /\ g_input \in InitialContexts
    /\ g_pc = "idle"
    /\ g_i = 0
    /\ g_state = initial_state(EmptyCtx)
    /\ g_results = <<>>
    /\ g_log = <<>>
    /\ g_answers = <<>>

\* graph.ainvoke(initial_state(context)): START -> the first Unit, or the
\* passthrough node of an empty Flow
FlowGraphInvoke ==
    /\ g_pc = "idle"
    /\ g_state' = initial_state(g_input)
    /\ g_pc' = IF g_graph.flow = <<>> THEN "passthrough" ELSE "ariadne"
    /\ UNCHANGED <<g_graph, g_world, g_input, g_i, g_results, g_log, g_answers>>
    /\ UNCHANGED NotGraph

\* the passthrough node of an empty Flow, then END
FlowGraphPassthrough ==
    /\ g_pc = "passthrough"
    /\ g_state' = passthrough(g_state)
    /\ g_results' = Append(g_results, Ended(g_state', "end"))
    /\ g_pc' = "end"
    /\ UNCHANGED <<g_graph, g_world, g_input, g_i, g_log, g_answers>>
    /\ UNCHANGED NotGraph

\* Unit node g_i has ended with state: the edge that leaves it is followed.
FlowGraphUnitEnds(state) ==
    LET route == FlowEdge(g_graph.flow, g_i, state)
    IN  IF route = "continue"
        THEN /\ g_i' = g_i + 1
             /\ g_pc' = "ariadne"
             /\ UNCHANGED g_results
        ELSE /\ g_results' = Append(g_results, Ended(state, route))
             /\ g_pc' = "end"
             /\ UNCHANGED g_i

\* The Thread subgraph of Unit g_i runs, then check_ariadne.
FlowGraphAriadne ==
    /\ g_pc = "ariadne"
    /\ LET unit == g_graph.flow[g_i + 1]
           a == ThreadGraph(unit.ariadne, g_state, g_world)
       IN  /\ g_log' = Append(g_log, [unit |-> g_i, node |-> "ariadne",
                                      raised |-> a.raised, state |-> a.state])
           /\ IF a.raised
              THEN /\ g_results' = Append(g_results, Raised(a.error, g_state))
                   /\ g_pc' = "raised"
                   /\ UNCHANGED <<g_i, g_state>>
              ELSE /\ g_state' = a.state
                   /\ IF check_ariadne(a.state) = "continue"
                      THEN /\ g_pc' = "poimandres"
                           /\ UNCHANGED <<g_i, g_results>>
                      ELSE FlowGraphUnitEnds(a.state)
    /\ UNCHANGED <<g_graph, g_world, g_input, g_answers>>
    /\ UNCHANGED NotGraph

\* The poimandres node of Unit g_i runs, and the Unit's graph ends.
FlowGraphPoimandres ==
    /\ g_pc = "poimandres"
    /\ \E llm \in FlowLLMs :
          LET unit == g_graph.flow[g_i + 1]
              state == PoimandresNode(unit.config, g_state, llm)
          IN  /\ g_log' = Append(g_log, [unit |-> g_i, node |-> "poimandres",
                                         raised |-> FALSE, state |-> state])
              /\ g_state' = state
              /\ FlowGraphUnitEnds(state)
    /\ UNCHANGED <<g_graph, g_world, g_input, g_answers>>
    /\ UNCHANGED NotGraph

FlowGraphNext ==
    FlowGraphInvoke \/ FlowGraphPassthrough \/ FlowGraphAriadne \/ FlowGraphPoimandres

FlowGraphStart ==
    FlowGraphInit /\ ThreadIdle /\ UnitIdle /\ FlowIdle /\ DuoIdle /\ V2Idle
    /\ AuxIdle /\ running = "flow_graph"

SpecFlowGraph == FlowGraphStart /\ [][FlowGraphNext]_vars

\* C35: in the graph of a Flow, the poimandres node of a Unit runs only
\* straight after that Unit's Thread subgraph ended without an exception,
\* not awaiting input and not in error; and a Unit node runs only as the
\* first node of the invocation or straight after the Unit before it ended
\* with status success, so that after a Unit ended otherwise nothing runs.
C35_FlowGraphRoutesOnStatus ==
    /\ \A k \in 1..Len(g_log) :
          /\ g_log[k].node = "poimandres"
             => /\ k > 1
                /\ g_log[k - 1].node = "ariadne"
                /\ g_log[k - 1].unit = g_log[k].unit
                /\ ~g_log[k - 1].raised
                /\ ~g_log[k - 1].state.awaiting_input
                /\ g_log[k - 1].state.status # "error"
          /\ g_log[k].node = "ariadne"
             => IF k = 1 THEN g_log[k].unit = 0
                ELSE /\ g_log[k].unit = g_log[k - 1].unit + 1
                     /\ ~g_log[k - 1].raised
                     /\ g_log[k - 1].state.status = "success"
    /\ g_done
       => /\ g_log # <<>> => g_log[Len(g_log)].unit = g_i
          /\ (g_log # <<>> /\ g_i < Len(g_graph.flow) - 1)
             => (g_log[Len(g_log)].raised \/ g_log[Len(g_log)].state.status # "success")

\* Witness for C35: in a Flow of three Units the first Unit generated with
\* success, the second Unit's Thread ran and its generation ended blocked, and
\* the graph reached END without running the third Unit.
C35_Witness ==
    /\ g_pc = "end"
    /\ Len(g_graph.flow) = 3
    /\ Len(g_log) = 4
    /\ g_log[2].node = "poimandres"
    /\ g_log[2].state.status = "success"
    /\ g_log[3].unit = 1
    /\ g_log[4].node = "poimandres"
    /\ g_log[4].state.status = "blocked"
    /\ g_i = 1


(***************************************************************************)
(* Brain.cognize called on its own: one _check_relevance task per neuron,  *)
(* all handed to asyncio.gather at once.  A task is in flight from the     *)
(* moment its model call is sent until the call returns or raises.         *)
(***************************************************************************)
MaxNeurons == 3
MaxLimit == 2

\* What a scoring call can come back with: a score in tenths, or an error
\* (which _check_relevance turns into the score 0).
Scores == {9, 2, 0}

BrainInit ==
    /\ b_neurons \in 0..MaxNeurons
    /\ b_sdk \in BOOLEAN
    /\ b_max_relevant \in 1..2
    /\ b_limit \in 1..MaxLimit
    /\ b_pc = "idle"
    /\ b_tasks = <<>>
    /\ b_scores = <<>>
    /\ b_result = <<>>
    /\ b_peak = 0

\* The scoring calls under way.
InFlight == {n \in DOMAIN b_tasks : b_tasks[n] = "in_flight"}

\* The neurons with relevance above 0.5, the first max_relevant of them in
\* the order of the stable sort by falling relevance.
Relevant(scores, max_relevant) ==
    LET hi == SelectSeq([n \in 1..Len(scores) |-> n], LAMBDA n : scores[n] > 5)
    IN  SubSeq(hi, 1, IF Len(hi) < max_relevant THEN Len(hi) ELSE max_relevant)

\* cognize(query, max_relevant): no neurons returns at once; otherwise one
\* task per neuron is created and all are given to asyncio.gather.
CognizeCall ==
    /\ b_pc = "idle"
    /\ IF b_neurons = 0
       THEN /\ b_pc' = "done"
            /\ UNCHANGED <<b_tasks, b_scores>>
       ELSE /\ b_pc' = "gather"
            /\ b_tasks' = [n \in 1..b_neurons |-> "created"]
            /\ b_scores' = [n \in 1..b_neurons |-> 0]
    /\ UNCHANGED <<b_neurons, b_sdk, b_max_relevant, b_limit, b_result, b_peak>>
    /\ UNCHANGED <<th_vars, u_vars, f_vars, d_vars, v_vars, g_vars, t_vars, running>>

\* A task starts: _check_relevance returns (0.0, ...) at once without the
\* SDK, and otherwise sends its model call.  Nothing holds a task back.
TaskStart ==
    /\ b_pc = "gather"
    /\ \E n \in DOMAIN b_tasks :
          /\ b_tasks[n] = "created"
          /\ b_tasks' = [b_tasks EXCEPT ![n] = IF b_sdk THEN "in_flight" ELSE "done"]
          /\ b_peak' = IF b_sdk /\ Cardinality(InFlight) + 1 > b_peak
                       THEN Cardinality(InFlight) + 1 ELSE b_peak
    /\ UNCHANGED <<b_neurons, b_sdk, b_max_relevant, b_limit, b_pc, b_scores, b_result>>
    /\ UNCHANGED <<th_vars, u_vars, f_vars, d_vars, v_vars, g_vars, t_vars, running>>

\* A model call comes back and its task returns (score, reasoning).
TaskFinish ==
    /\ b_pc = "gather"
    /\ \E n \in InFlight, score \in Scores :
          /\ b_tasks' = [b_tasks EXCEPT ![n] = "done"]
          /\ b_scores' = [b_scores EXCEPT ![n] = score]
    /\ UNCHANGED <<b_neurons, b_sdk, b_max_relevant, b_limit, b_pc, b_result, b_peak>>
    /\ UNCHANGED <<th_vars, u_vars, f_vars, d_vars, v_vars, g_vars, t_vars, running>>

\* gather has every result: the neurons are sorted and the top ones returned.
CognizeReturn ==
    /\ b_pc = "gather"
    /\ \A n \in DOMAIN b_tasks : b_tasks[n] = "done"
    /\ b_result' = Relevant(b_scores, b_max_relevant)
    /\ b_pc' = "done"
    /\ UNCHANGED <<b_neurons, b_sdk, b_max_relevant, b_limit, b_tasks, b_scores, b_peak>>
    /\ UNCHANGED <<th_vars, u_vars, f_vars, d_vars, v_vars, g_vars, t_vars, running>>

BrainNext == CognizeCall \/ TaskStart \/ TaskFinish \/ CognizeReturn

BrainStart ==
    BrainInit /\ ThreadIdle /\ UnitIdle /\ FlowIdle /\ DuoIdle /\ V2Idle /\ GraphIdle
    /\ TagsIdle /\ running = "brain"

SpecBrain == BrainStart /\ [][BrainNext]_vars

\* C36: during one query the number of scoring calls in flight never exceeds
\* the limit the caller set.
C36_ScoringCallsWithinLimit ==
    /\ Cardinality(InFlight) <= b_limit
    /\ b_peak <= b_limit


\* The texts the target Unit has generated so far in this run of the loop.
TargetTexts ==
    { d_log[k].context["text"] :
        k \in {j \in 1..Len(d_log) : d_log[j].who = "target" /\ d_log[j].status = "success"} }

\* C37: in every result of the 2-stage loop the context's target_output entry
\* is the empty string or a text the target Unit generated; it is never a
\* text that only the observer generated.
C37_TargetOutputIsTargetText ==
    \A k \in 1..Len(d_results) :
        "target_output" \in DOMAIN d_results[k].context
            => d_results[k].context["target_output"] \in ({""} \cup TargetTexts)


\* Whether a run of the Unit from its first element writes key: an element
\* ahead of the Unit's first human gate injects at that key.
RunWrites(unit, key) ==
    LET gate == FirstGate(unit.ariadne, 0)
        last == IF gate = NoIndex THEN Len(unit.ariadne) ELSE gate
    IN  \E i \in 1..last :
           /\ unit.ariadne[i].kind \in {"inject", "weave", "brain"}
           /\ unit.ariadne[i].inject_as = key

\* C38: the 2-stage loop returns Success only when the observer's run of the
\* final iteration put a truthy value at the approval key; a truthy value the
\* caller's context already held does not make the loop succeed.
C38_SuccessNeedsObserverApproval ==
    \A k \in 1..Len(d_results) :
        d_results[k].status = "success"
            => /\ d_log # <<>>
               /\ d_log[Len(d_log)].who = "ovp"
               /\ d_log[Len(d_log)].iteration = d_results[k].iterations
               /\ Truthy(CtxGet(d_log[Len(d_log)].context, d_agent.approval_key, False))
               /\ RunWrites(d_agent.ovp, d_agent.approval_key)


\* The indices of the elements that are not human gates, in sequence order.
NonGates(elems) ==
    SelectSeq([k \in 1..Len(elems) |-> k - 1], LAMBDA k : elems[k + 1].kind # "human")

\* Whether some call of the run so far ended in Error.
SomeError == \E k \in 1..Len(th_results) : th_results[k].status = "error"

\* C39: a Thread with g human gates, started at index 0 and resumed after
\* every suspension at the returned index with the returned context, ends in
\* Success at call g + 1 unless an element fails: every earlier call is a
\* suspension, and over all the calls every element that is not a gate is
\* applied exactly once, in sequence order.
C39_GatesSuspendOnceEach ==
    (th_start = 0 /\ ~SomeError)
        => LET g == GateCount(elements)
               all == NonGates(elements)
           IN  /\ Len(th_results) <= g + 1
               /\ \A k \in 1..Len(th_results) :
                     th_results[k].status = IF k <= g THEN "awaiting_input" ELSE "success"
               /\ Len(th_applied) <= Len(all)
               /\ th_applied = SubSeq(all, 1, Len(th_applied))
               /\ (th_done /\ th_result.status = "success") => th_applied = all

\* Witness for C39: gate, literal, gate: two suspensions, then Success at the
\* third call with the literal applied once.
C39_Witness ==
    /\ th_start = 0
    /\ th_done
    /\ Len(elements) = 3
    /\ GateCount(elements) = 2
    /\ elements[2].kind = "inject"
    /\ Len(th_results) = 3
    /\ th_results[1].status = "awaiting_input"
    /\ th_results[2].status = "awaiting_input"
    /\ th_result.status = "success"
    /\ th_applied = <<1>>


\* The keys DuoAgentV2.execute itself writes in its loop context.
LoopKeys == {"attempt_feedback", "duo_iteration", "challenge", "deliverable"}

\* ctx differs from initial at the loop's own keys only.
SameOutsideLoopKeys(ctx, initial) ==
    \A key \in (DOMAIN ctx \cup DOMAIN initial) \ LoopKeys :
        /\ key \in DOMAIN ctx
        /\ key \in DOMAIN initial
        /\ ctx[key] = initial[key]

\* C40: in the 4-stage loop the context handed to every stage, and the
\* context of every result, differs from the caller's initial context only at
\* attempt_feedback, duo_iteration, challenge and deliverable: no entry
\* written by a stage's Thread or Generation Step shows in it.
C40_V2LoopContextFrame ==
    /\ \A k \in 1..Len(v_log) : SameOutsideLoopKeys(v_log[k].input, v_input)
    /\ \A k \in 1..Len(v_results) : SameOutsideLoopKeys(v_results[k].context, v_input)

====
